---- MODULE Spec2Model ----
(***************************************************************************)
(* Model of the monkey interpreter: the runtime objects, the environment   *)
(* chain and the tree-walking evaluator, as state-passing operators that   *)
(* follow the Go functions one to one, driven by three small machines:     *)
(*   Spec     runs evalProgram over a program, one loop iteration a step;  *)
(*   SpecOps  applies the operator functions to drawn operands;            *)
(*   SpecEnv  builds environment chains and calls Get and Set on them.     *)
(***************************************************************************)
EXTENDS Integers, Sequences, FiniteSets, TLC

VARIABLES
    program,   \* Spec: the statements of the ast.Program under evaluation
    pos,       \* Spec: 1-based index of the next statement of evalProgram's loop
    st,        \* Spec: evaluator state (heap of environments, allocator, log, value)
    results,   \* Spec: history, the statements evaluated so far and what Eval gave
    status,    \* Spec: "running", or why evalProgram ended
    result,    \* Spec: the object evalProgram returned
    opArgs,    \* SpecOps: the drawn operator and operands
    opOut,     \* SpecOps: what the applied function returned
    opDone,    \* SpecOps: which function was applied ("" before)
    envs,      \* SpecEnv: the heap of environments
    envOp,     \* SpecEnv: the last Environment call and what it returned
    lexer,     \* SpecLex: the Lexer (input, position, readPosition, ch)
    tokens,    \* SpecLex: history, the tokens NextToken returned and where from
    parser,    \* SpecParse: the Parser (lex, curToken, peekToken, errors)
    parseOut,  \* SpecParse: the statements parsed so far, the turns taken, the print
    compiler,  \* SpecCompile: the Compiler
    compileJob, \* SpecCompile: the program compiled, the next statement, the turns
    walk,      \* SpecCompile: the walk of the bytecode (ip, depth of the stack)
    machine,   \* SpecVM: the VM (instructions, constants, stack, sp)
    run,       \* SpecVM: the call of Run (its ip, how it ended, its last turn)
    symbolTable,\* SpecSym: the SymbolTable (store, numDefinitions)
    defines,   \* SpecSym: history, the symbols the Define calls returned, in order
    resolved,  \* SpecSym: the last Resolve call and what it returned
    made,      \* SpecCode: the last Make call, its instruction and what ReadOperands read back
    listing    \* SpecCode: the call of Instructions.String (ins, cursor i, lines written)

vars == <<program, pos, st, results, status, result, opArgs, opOut, opDone, envs, envOp,
          lexer, tokens, parser, parseOut, compiler, compileJob, walk, machine, run,
          symbolTable, defines, resolved,
          made, listing>>
evalVars == <<program, pos, st, results, status, result>>
opVars == <<opArgs, opOut, opDone>>
envVars == <<envs, envOp>>
lexVars == <<lexer, tokens>>
parseVars == <<parser, parseOut>>
compileVars == <<compiler, compileJob, walk>>
vmVars == <<machine, run>>
symVars == <<symbolTable, defines, resolved>>
codeVars == <<made, listing>>

\* What each machine leaves alone: the variables of the other machines.
exceptEval == <<opVars, envVars, lexVars, parseVars, compileVars, vmVars, symVars, codeVars>>
exceptOps == <<evalVars, envVars, lexVars, parseVars, compileVars, vmVars, symVars, codeVars>>
exceptEnv == <<evalVars, opVars, lexVars, parseVars, compileVars, vmVars, symVars, codeVars>>
exceptLex == <<evalVars, opVars, envVars, parseVars, compileVars, vmVars, symVars, codeVars>>
exceptParse == <<evalVars, opVars, envVars, lexVars, compileVars, vmVars, symVars, codeVars>>
exceptCompile == <<evalVars, opVars, envVars, lexVars, parseVars, vmVars, symVars, codeVars>>
exceptVM == <<evalVars, opVars, envVars, lexVars, parseVars, compileVars, symVars, codeVars>>
exceptSym == <<evalVars, opVars, envVars, lexVars, parseVars, compileVars, vmVars, codeVars>>
exceptCode == <<evalVars, opVars, envVars, lexVars, parseVars, compileVars, vmVars, symVars>>

(***************************************************************************)
(* Bounds of the model.                                                    *)
(***************************************************************************)
\* Width in bits of the modelled integers (the source's int64, narrowed).
IntBits == 5
\* Longest generated program, in statements.
MaxStmts == 3
\* Most environments SpecEnv allocates.
MaxEnvs == 3
\* Longest generated program of sums, in statements.
MaxSums == 2
\* Most Define calls SpecSym makes on its SymbolTable.
MaxDefines == 4
\* Most `ERROR:` lines SpecCode lets Instructions.String write.
MaxErrorLines == 3

MinInt == -(2 ^ (IntBits - 1))
MaxInt == 2 ^ (IntBits - 1) - 1
IntRange == MinInt .. MaxInt

\* Two's-complement wrap-around of Go's fixed-width integer arithmetic.
Wrap(n) == ((n - MinInt) % (2 ^ IntBits)) + MinInt

Abs(n) == IF n < 0 THEN -n ELSE n

\* Go's integer division truncates toward zero (and wraps for MinInt / -1).
GoQuot(a, b) ==
    LET q == Abs(a) \div Abs(b)
    IN  Wrap(IF (a < 0) = (b < 0) THEN q ELSE -q)

(***************************************************************************)
(* Runtime objects.  Every object is a record with its Type() tag in       *)
(* `type` and its address in `ptr`; Go compares interface values holding   *)
(* pointers by address.  Nil is Go's nil interface value.                  *)
(***************************************************************************)
INTEGER_OBJ == "INTEGER"
BOOLEAN_OBJ == "BOOLEAN"
NULL_OBJ == "NULL"
RETURN_VALUE_OBJ == "RETURN_VALUE"
ERROR_OBJ == "ERROR"
FUNCTION_OBJ == "FUNCTION"
STRING_OBJ == "STRING"
BUILTIN_OBJ == "BUILTIN"

Nil == [type |-> "nil", ptr |-> 0]

NULL == [type |-> NULL_OBJ, ptr |-> 1]
TRUE_OBJ == [type |-> BOOLEAN_OBJ, Value |-> TRUE, ptr |-> 2]
FALSE_OBJ == [type |-> BOOLEAN_OBJ, Value |-> FALSE, ptr |-> 3]

\* The builtin registry (its file is not among the sources): the name len.
builtins == [n \in {"len"} |-> [type |-> BUILTIN_OBJ, Name |-> n, ptr |-> 4]]

\* First address the allocator hands out: the one after the preallocated objects.
FirstPtr == builtins["len"].ptr + 1

\* A Go runtime panic unwinding the evaluation.
PanicValue(msg) == [type |-> "PANIC", Message |-> msg, ptr |-> 0]
Panic(s, msg) == [s EXCEPT !.val = PanicValue(msg)]
Panicked(s) == s.val.type = "PANIC"

\* Address equality of two interface values (Go's == on objects).
SameObject(a, b) == a.type = b.type /\ a.ptr = b.ptr

\* &T{...}: a fresh object with the given fields.
Alloc(s, obj) ==
    [s EXCEPT !.val = [type |-> obj.type, ptr |-> s.nextPtr] @@ obj,
              !.nextPtr = @ + 1]

newInteger(s, v) == Alloc(s, [type |-> INTEGER_OBJ, Value |-> v])
newString(s, v) == Alloc(s, [type |-> STRING_OBJ, Value |-> v])
newReturnValue(s, v) == Alloc(s, [type |-> RETURN_VALUE_OBJ, Value |-> v])

newError(s, msg) == Alloc(s, [type |-> ERROR_OBJ, Message |-> msg])

isError(obj) == IF obj.type # "nil" THEN obj.type = ERROR_OBJ ELSE FALSE

\* Variant of nativeBoolToBooleanObject that returns a Boolean of its own,
\* at an address that is neither TRUE's nor FALSE's; C26's formula rules it
\* out.
nativeBoolToOwnBoolean(input) == [type |-> BOOLEAN_OBJ, Value |-> input, ptr |-> 0]

nativeBoolToBooleanObject(input) == IF input THEN TRUE_OBJ ELSE FALSE_OBJ

(***************************************************************************)
(* Environments.  A heap is a sequence of environments; an environment is  *)
(* addressed by its index, and outer = 0 is the nil outer pointer.         *)
(***************************************************************************)
EmptyStore == [n \in {} |-> Nil]

NewEnvironment(heap) == Append(heap, [store |-> EmptyStore, outer |-> 0])

NewEnclosedEnvironment(heap, outer) ==
    LET h == NewEnvironment(heap)
    IN  [h EXCEPT ![Len(h)].outer = outer]

\* Variant of Get that looks in the environment's own store only (the
\* Environment without an outer link); C10's formula rules it out.
GetOwnStore(heap, e, name) ==
    IF name \in DOMAIN heap[e].store
    THEN [obj |-> heap[e].store[name], ok |-> TRUE]
    ELSE [obj |-> Nil, ok |-> FALSE]

RECURSIVE Get(_, _, _)
Get(heap, e, name) ==
    LET ok == name \in DOMAIN heap[e].store
        obj == IF ok THEN heap[e].store[name] ELSE Nil
    IN  IF ~ok /\ heap[e].outer # 0
        THEN Get(heap, heap[e].outer, name)
        ELSE [obj |-> obj, ok |-> ok]

Set(heap, e, name, val) ==
    [heap EXCEPT ![e].store =
        [n \in DOMAIN @ \cup {name} |-> IF n = name THEN val ELSE @[n]]]

(***************************************************************************)
(* Syntax trees.  A node is a record tagged by `kind` with the fields of   *)
(* its Go struct; NoNode is a nil node pointer (an absent alternative).    *)
(***************************************************************************)
NoNode == [kind |-> "nil"]
IntegerLiteral(v) == [kind |-> "IntegerLiteral", Value |-> v]
BooleanLit(b) == [kind |-> "Boolean", Value |-> b]
StringLiteral(s) == [kind |-> "StringLiteral", Value |-> s]
Identifier(n) == [kind |-> "Identifier", Value |-> n]
PrefixExpression(op, r) == [kind |-> "PrefixExpression", Operator |-> op, Right |-> r]
InfixExpression(l, op, r) ==
    [kind |-> "InfixExpression", Operator |-> op, Left |-> l, Right |-> r]
BlockStatement(stmts) == [kind |-> "BlockStatement", Statements |-> stmts]
IfExpression(c, cons, alt) ==
    [kind |-> "IfExpression", Condition |-> c, Consequence |-> cons, Alternative |-> alt]
FunctionLiteral(params, body) ==
    [kind |-> "FunctionLiteral", Parameters |-> params, Body |-> body]
CallExpression(f, args) == [kind |-> "CallExpression", Function |-> f, Arguments |-> args]
\* A node the evaluator has no case for (Eval falls through to `return nil`).
ArrayLiteral(elems) == [kind |-> "ArrayLiteral", Elements |-> elems]
LetStatement(n, v) == [kind |-> "LetStatement", Name |-> n, Value |-> v]
ReturnStatement(v) == [kind |-> "ReturnStatement", ReturnValue |-> v]
ExpressionStatement(e) == [kind |-> "ExpressionStatement", Expression |-> e]

(***************************************************************************)
(* The evaluator.  Each function takes the evaluator state s              *)
(* (heap, nextPtr, log, val) and returns the state after it, its result    *)
(* in val.  log is a history of the block, call and apply steps taken.     *)
(***************************************************************************)
Logged(s, ev) == [s EXCEPT !.log = Append(@, ev)]

\* Variant of evalBangOperatorExpression without the NULL case; C4's formula
\* rules it out.
evalBangWithoutNull(right) ==
    CASE SameObject(right, TRUE_OBJ) -> FALSE_OBJ
      [] SameObject(right, FALSE_OBJ) -> TRUE_OBJ
      [] OTHER -> FALSE_OBJ

evalBangOperatorExpression(right) ==
    CASE SameObject(right, TRUE_OBJ) -> FALSE_OBJ
      [] SameObject(right, FALSE_OBJ) -> TRUE_OBJ
      [] SameObject(right, NULL) -> TRUE_OBJ
      [] OTHER -> FALSE_OBJ

evalMinusPrefixOperatorExpression(s, right) ==
    IF right.type = "nil" THEN Panic(s, "nil pointer dereference")
    ELSE IF right.type # INTEGER_OBJ
    THEN newError(s, "unknown operator: -" \o right.type)
    ELSE newInteger(s, Wrap(-right.Value))

evalPrefixExpression(s, operator, right) ==
    CASE operator = "!" -> [s EXCEPT !.val = evalBangOperatorExpression(right)]
      [] operator = "-" -> evalMinusPrefixOperatorExpression(s, right)
      [] OTHER -> IF right.type = "nil" THEN Panic(s, "nil pointer dereference")
                  ELSE newError(s, "unknown operator: " \o operator \o right.type)

\* Variant of evalIntegerInfixExpression without the "<" and "!=" cases;
\* C5's formula rules it out.
evalIntegerInfixFewer(s, operator, left, right) ==
    CASE operator = "+" -> newInteger(s, Wrap(left.Value + right.Value))
      [] operator = "-" -> newInteger(s, Wrap(left.Value - right.Value))
      [] operator = "*" -> newInteger(s, Wrap(left.Value * right.Value))
      [] operator = "/" -> IF right.Value = 0
                           THEN Panic(s, "integer divide by zero")
                           ELSE newInteger(s, GoQuot(left.Value, right.Value))
      [] operator = ">" -> [s EXCEPT !.val = nativeBoolToBooleanObject(left.Value > right.Value)]
      [] operator = "==" -> [s EXCEPT !.val = nativeBoolToBooleanObject(left.Value = right.Value)]
      [] OTHER -> newError(s, "unknown operator: " \o left.type \o " " \o operator
                                \o " " \o right.type)

evalIntegerInfixExpression(s, operator, left, right) ==
    LET leftVal == left.Value
        rightVal == right.Value
    IN  CASE operator = "+" -> newInteger(s, Wrap(leftVal + rightVal))
          [] operator = "-" -> newInteger(s, Wrap(leftVal - rightVal))
          [] operator = "*" -> newInteger(s, Wrap(leftVal * rightVal))
          [] operator = "/" -> IF rightVal = 0
                               THEN Panic(s, "integer divide by zero")
                               ELSE newInteger(s, GoQuot(leftVal, rightVal))
          [] operator = "<" -> [s EXCEPT !.val = nativeBoolToBooleanObject(leftVal < rightVal)]
          [] operator = ">" -> [s EXCEPT !.val = nativeBoolToBooleanObject(leftVal > rightVal)]
          [] operator = "==" -> [s EXCEPT !.val = nativeBoolToBooleanObject(leftVal = rightVal)]
          [] operator = "!=" -> [s EXCEPT !.val = nativeBoolToBooleanObject(leftVal # rightVal)]
          [] OTHER -> newError(s, "unknown operator: " \o left.type \o " " \o operator
                                    \o " " \o right.type)

evalStringInfixExpression(s, operator, left, right) ==
    LET leftVal == left.Value
        rightVal == right.Value
    IN  CASE operator = "+" -> newString(s, leftVal \o rightVal)
          [] OTHER -> newError(s, "unknown operator: " \o left.type \o " " \o operator
                                    \o " " \o right.type)

\* Variant of evalInfixExpression that tests for a type mismatch before the
\* operators == and !=; C6's formula rules it out.
evalInfixMismatchFirst(s, operator, left, right) ==
    IF left.type = "nil" \/ right.type = "nil" THEN Panic(s, "nil pointer dereference")
    ELSE IF left.type = INTEGER_OBJ /\ right.type = INTEGER_OBJ
    THEN evalIntegerInfixExpression(s, operator, left, right)
    ELSE IF left.type = STRING_OBJ /\ right.type = STRING_OBJ
    THEN evalStringInfixExpression(s, operator, left, right)
    ELSE IF left.type # right.type
    THEN newError(s, "type mismatch: " \o left.type \o " " \o operator \o " " \o right.type)
    ELSE IF operator = "=="
    THEN [s EXCEPT !.val = nativeBoolToBooleanObject(SameObject(left, right))]
    ELSE IF operator = "!="
    THEN [s EXCEPT !.val = nativeBoolToBooleanObject(~SameObject(left, right))]
    ELSE newError(s, "unknown operator: " \o left.type \o " " \o operator \o " " \o right.type)

\* The switch evaluates its cases in order; x.Type() on a nil interface panics.
evalInfixExpression(s, operator, left, right) ==
    IF left.type = "nil" THEN Panic(s, "nil pointer dereference")
    ELSE IF left.type = INTEGER_OBJ /\ right.type = "nil"
    THEN Panic(s, "nil pointer dereference")
    ELSE IF left.type = INTEGER_OBJ /\ right.type = INTEGER_OBJ
    THEN evalIntegerInfixExpression(s, operator, left, right)
    ELSE IF left.type = STRING_OBJ /\ right.type = "nil"
    THEN Panic(s, "nil pointer dereference")
    ELSE IF left.type = STRING_OBJ /\ right.type = STRING_OBJ
    THEN evalStringInfixExpression(s, operator, left, right)
    ELSE IF operator = "=="
    THEN [s EXCEPT !.val = nativeBoolToBooleanObject(SameObject(left, right))]
    ELSE IF operator = "!="
    THEN [s EXCEPT !.val = nativeBoolToBooleanObject(~SameObject(left, right))]
    ELSE IF right.type = "nil" THEN Panic(s, "nil pointer dereference")
    ELSE IF left.type # right.type
    THEN newError(s, "type mismatch: " \o left.type \o " " \o operator \o " " \o right.type)
    ELSE newError(s, "unknown operator: " \o left.type \o " " \o operator \o " " \o right.type)

isTruthy(obj) ==
    CASE SameObject(obj, NULL) -> FALSE
      [] SameObject(obj, TRUE_OBJ) -> TRUE
      [] SameObject(obj, FALSE_OBJ) -> FALSE
      [] OTHER -> TRUE

evalIdentifier(s, node, env) ==
    LET got == Get(s.heap, env, node.Value)
    IN  IF got.ok THEN [s EXCEPT !.val = got.obj]
        ELSE IF node.Value \in DOMAIN builtins THEN [s EXCEPT !.val = builtins[node.Value]]
        ELSE newError(s, "identifier not found: " \o node.Value)

unwrapReturnValue(obj) ==
    IF obj.type = RETURN_VALUE_OBJ THEN obj.Value ELSE obj

\* The builtin len, as the specification describes it (the message's backquotes
\* around len are written as apostrophes: the lexer admits none in a string).
applyBuiltin(s, fn, args) ==
    IF Len(args) # 1
    THEN newError(s, "wrong number of arguments. got=" \o ToString(Len(args)) \o ", want=1")
    ELSE IF args[1].type = STRING_OBJ THEN newInteger(s, Wrap(Len(args[1].Value)))
    ELSE IF args[1].type = "nil" THEN Panic(s, "nil pointer dereference")
    ELSE newError(s, "argument to 'len' not supported, got " \o args[1].type)

\* for idx, param := range fn.Parameters { env.Set(param.Value, args[idx]) }
RECURSIVE bindParameters(_, _, _, _, _)
bindParameters(s, params, args, env, idx) ==
    IF idx > Len(params) THEN s
    ELSE IF idx > Len(args) THEN Panic(s, "index out of range")
    ELSE bindParameters([s EXCEPT !.heap = Set(@, env, params[idx], args[idx])],
                        params, args, env, idx + 1)

\* Variant of extendFunctionEnv that binds the parameters in the captured
\* environment itself; C7's formula rules it out.
extendFunctionEnvInPlace(s, fn, args) ==
    [s |-> bindParameters(s, fn.Parameters, args, fn.Env, 1), env |-> fn.Env]

\* Returns the state after the bindings and the address of the new environment.
extendFunctionEnv(s, fn, args) ==
    LET h == NewEnclosedEnvironment(s.heap, fn.Env)
        env == Len(h)
    IN  [s |-> bindParameters([s EXCEPT !.heap = h], fn.Parameters, args, env, 1),
         env |-> env]

RECURSIVE Eval(_, _, _)
RECURSIVE evalBlockLoop(_, _, _, _, _)
RECURSIVE evalExpressionsLoop(_, _, _, _, _)
RECURSIVE applyFunction(_, _, _)

\* A function's code after a call it makes is an operator of its own, taking
\* the state the call returned as an argument (r, val, left, function, ...).

BlockEvent(block, vals, val) == [ev |-> "block", block |-> block, vals |-> vals, val |-> val]

\* Variant of evalBlockThen that unwraps a ReturnValue as evalProgram does;
\* C3's formula rules it out.
evalBlockThenUnwrapping(r, block, i, env, vals) ==
    IF Panicked(r) THEN r
    ELSE IF r.val.type = RETURN_VALUE_OBJ
    THEN Logged([r EXCEPT !.val = r.val.Value],
                BlockEvent(block, Append(vals, r.val), r.val.Value))
    ELSE IF r.val.type # "nil"
    THEN Logged(r, BlockEvent(block, Append(vals, r.val), r.val))
    ELSE evalBlockLoop(r, block, i + 1, env, Append(vals, r.val))

\* evalBlockStatement after `result = Eval(statement, env)` for statement i.
evalBlockThen(r, block, i, env, vals) ==
    IF Panicked(r) THEN r
    ELSE IF r.val.type # "nil"
    THEN IF r.val.type = RETURN_VALUE_OBJ \/ r.val.type = ERROR_OBJ
         THEN Logged(r, BlockEvent(block, Append(vals, r.val), r.val))
         ELSE Logged(r, BlockEvent(block, Append(vals, r.val), r.val))
    ELSE evalBlockLoop(r, block, i + 1, env, Append(vals, r.val))

\* The loop of evalBlockStatement from statement i on; s.val holds `result`
\* and vals the results of the statements evaluated so far (history).
evalBlockLoop(s, block, i, env, vals) ==
    IF i > Len(block.Statements)
    THEN Logged(s, BlockEvent(block, vals, s.val))
    ELSE evalBlockThen(Eval(block.Statements[i], env, s), block, i, env, vals)

evalBlockStatement(s, block, env) ==
    evalBlockLoop([s EXCEPT !.val = Nil], block, 1, env, <<>>)

\* Variant of evalExpressionsThen that goes on after an Error; C9's formula
\* rules it out.
evalExpressionsThenAll(evaluated, exps, i, env, acc) ==
    IF Panicked(evaluated)
    THEN [s |-> evaluated, result |-> <<>>, order |-> Append(acc.order, i),
          vals |-> Append(acc.vals, evaluated.val)]
    ELSE evalExpressionsLoop(evaluated, exps, i + 1, env,
             [result |-> Append(acc.result, evaluated.val),
              order |-> Append(acc.order, i),
              vals |-> Append(acc.vals, evaluated.val)])

\* evalExpressions after `evaluated := Eval(e, env)` for expression i.
evalExpressionsThen(evaluated, exps, i, env, acc) ==
    IF Panicked(evaluated)
    THEN [s |-> evaluated, result |-> <<>>, order |-> Append(acc.order, i),
          vals |-> Append(acc.vals, evaluated.val)]
    ELSE IF isError(evaluated.val)
    THEN [s |-> evaluated, result |-> <<evaluated.val>>, order |-> Append(acc.order, i),
          vals |-> Append(acc.vals, evaluated.val)]
    ELSE evalExpressionsLoop(evaluated, exps, i + 1, env,
             [result |-> Append(acc.result, evaluated.val),
              order |-> Append(acc.order, i),
              vals |-> Append(acc.vals, evaluated.val)])

\* The loop of evalExpressions from expression i on; returns the state, the
\* result slice and (history) the indices evaluated, in the order evaluated,
\* with the value each evaluation gave.
evalExpressionsLoop(s, exps, i, env, acc) ==
    IF i > Len(exps)
    THEN [s |-> s, result |-> acc.result, order |-> acc.order, vals |-> acc.vals]
    ELSE evalExpressionsThen(Eval(exps[i], env, s), exps, i, env, acc)

evalExpressions(s, exps, env) ==
    evalExpressionsLoop(s, exps, 1, env, [result |-> <<>>, order |-> <<>>, vals |-> <<>>])

\* evalIfExpression after `condition := Eval(i.Condition, env)`.
evalIfThen(condition, i, env) ==
    IF Panicked(condition) THEN condition
    ELSE IF isError(condition.val) THEN condition
    ELSE IF isTruthy(condition.val) THEN Eval(i.Consequence, env, condition)
    ELSE IF i.Alternative.kind # "nil" THEN Eval(i.Alternative, env, condition)
    ELSE [condition EXCEPT !.val = NULL]

evalIfExpression(s, i, env) == evalIfThen(Eval(i.Condition, env, s), i, env)

\* applyFunction after `evaluated := Eval(fn.Body, extendedEnv)`.
applyReturn(s, ext, evaluated, fn, args) ==
    IF Panicked(evaluated) THEN evaluated
    ELSE Logged([evaluated EXCEPT !.val = unwrapReturnValue(evaluated.val)],
                [ev |-> "apply", fn |-> fn, args |-> args, env |-> ext.env,
                 heapBefore |-> s.heap, heapEntry |-> ext.s.heap,
                 heapAfter |-> evaluated.heap, bodyVal |-> evaluated.val,
                 val |-> unwrapReturnValue(evaluated.val)])

\* applyFunction after `extendedEnv := extendFunctionEnv(fn, args)`.
applyExtended(s, ext, fn, args) ==
    IF Panicked(ext.s) THEN ext.s
    ELSE applyReturn(s, ext, Eval(fn.Body, ext.env, ext.s), fn, args)

applyFunction(s, fn, args) ==
    CASE fn.type = FUNCTION_OBJ -> applyExtended(s, extendFunctionEnv(s, fn, args), fn, args)
      [] fn.type = BUILTIN_OBJ -> applyBuiltin(s, fn, args)
      [] fn.type = "nil" -> Panic(s, "nil pointer dereference")
      [] OTHER -> newError(s, "not a function: " \o fn.type)

\* History of a call: steps lists what was evaluated, in order (0 the callee,
\* i the i-th argument), argVals what each evaluated argument gave, args the
\* slice evalExpressions returned; applied tells whether applyFunction was called.
CallEvent(node, fn, a, applied, val) ==
    [ev |-> "call", node |-> node, fn |-> fn, steps |-> <<0>> \o a.order,
     argVals |-> a.vals, args |-> a.result, applied |-> applied, val |-> val]

\* The CallExpression case after `applyFunction(function, args)`.
callReturn(function, a, applied, node) ==
    IF Panicked(applied) THEN applied
    ELSE Logged(applied,
                CallEvent(node, function.val, a, TRUE, applied.val))

\* The CallExpression case after `args := evalExpressions(node.Arguments, env)`.
callApply(function, a, node) ==
    IF Panicked(a.s) THEN a.s
    ELSE IF Len(a.result) = 1 /\ isError(a.result[1])
    THEN Logged([a.s EXCEPT !.val = a.result[1]],
                CallEvent(node, function.val, a, FALSE, a.result[1]))
    ELSE callReturn(function, a, applyFunction(a.s, function.val, a.result), node)

\* The CallExpression case after `function := Eval(node.Function, env)`.
callArguments(function, node, env) ==
    IF Panicked(function) THEN function
    ELSE IF isError(function.val)
    THEN Logged(function, CallEvent(node, function.val, [order |-> <<>>, vals |-> <<>>, result |-> <<>>],
                                  FALSE, function.val))
    ELSE callApply(function, evalExpressions(function, node.Arguments, env), node)

\* The CallExpression case of Eval.
evalCallExpression(s, node, env) == callArguments(Eval(node.Function, env, s), node, env)

\* The LetStatement case after `val := Eval(node.Value, env)`.
letThen(val, node, env) ==
    IF Panicked(val) \/ isError(val.val) THEN val
    ELSE [val EXCEPT !.heap = Set(@, env, node.Name, val.val), !.val = Nil]

\* The ReturnStatement case after `val := Eval(node.ReturnValue, env)`.
returnThen(val) ==
    IF Panicked(val) \/ isError(val.val) THEN val
    ELSE newReturnValue(val, val.val)

\* The PrefixExpression case after `right := Eval(node.Right, env)`.
prefixThen(right, node) ==
    IF Panicked(right) \/ isError(right.val) THEN right
    ELSE evalPrefixExpression(right, node.Operator, right.val)

\* The InfixExpression case after `right := Eval(node.Right, env)`.
infixApply(left, right, node) ==
    IF Panicked(right) \/ isError(right.val) THEN right
    ELSE evalInfixExpression(right, node.Operator, left.val, right.val)

\* The InfixExpression case after `left := Eval(node.Left, env)`.
infixRight(left, node, env) ==
    IF Panicked(left) \/ isError(left.val) THEN left
    ELSE infixApply(left, Eval(node.Right, env, left), node)

\* Eval for every node but the root ast.Program, whose loop the machine steps.
Eval(node, env, s) ==
    CASE node.kind = "ExpressionStatement" -> Eval(node.Expression, env, s)
      [] node.kind = "BlockStatement" -> evalBlockStatement(s, node, env)
      [] node.kind = "LetStatement" -> letThen(Eval(node.Value, env, s), node, env)
      [] node.kind = "ReturnStatement" -> returnThen(Eval(node.ReturnValue, env, s))
      [] node.kind = "IntegerLiteral" -> newInteger(s, node.Value)
      [] node.kind = "Boolean" -> [s EXCEPT !.val = nativeBoolToBooleanObject(node.Value)]
      [] node.kind = "StringLiteral" -> newString(s, node.Value)
      [] node.kind = "PrefixExpression" -> prefixThen(Eval(node.Right, env, s), node)
      [] node.kind = "InfixExpression" -> infixRight(Eval(node.Left, env, s), node, env)
      [] node.kind = "IfExpression" -> evalIfExpression(s, node, env)
      [] node.kind = "Identifier" -> evalIdentifier(s, node, env)
      [] node.kind = "FunctionLiteral" ->
           Alloc(s, [type |-> FUNCTION_OBJ, Parameters |-> node.Parameters,
                     Body |-> node.Body, Env |-> env])
      [] node.kind = "CallExpression" -> evalCallExpression(s, node, env)
      [] OTHER -> [s EXCEPT !.val = Nil]

(***************************************************************************)
(* Programs.  A program is its source text (a label) and the statements    *)
(* the parser builds for it.                                               *)
(***************************************************************************)
Prog(src, stmts) == [src |-> src, Statements |-> stmts]

Corpus ==
    LET I(v) == IntegerLiteral(v)
        B(b) == BooleanLit(b)
        S(x) == StringLiteral(x)
        V(n) == Identifier(n)
        Pre(op, r) == PrefixExpression(op, r)
        Inf(l, op, r) == InfixExpression(l, op, r)
        Blk(stmts) == BlockStatement(stmts)
        ES(e) == ExpressionStatement(e)
        Let(n, v) == LetStatement(n, v)
        Ret(v) == ReturnStatement(v)
        If(c, cons) == IfExpression(c, Blk(cons), NoNode)
        IfElse(c, cons, alt) == IfExpression(c, Blk(cons), Blk(alt))
        Fn(params, body) == FunctionLiteral(params, Blk(body))
        Call(f, args) == CallExpression(f, args)
    IN  <<
    Prog("5", <<ES(I(5))>>),
    Prog("let a = 5; let b = a > 3; let c = a * 2; if (b) { 10 } else { 1 };",
         <<Let("a", I(5)), Let("b", Inf(V("a"), ">", I(3))),
           Let("c", Inf(V("a"), "*", I(2))),
           ES(IfElse(V("b"), <<ES(I(10))>>, <<ES(I(1))>>))>>),
    Prog("\"Hello\" + \" \" + \"World!\"",
         <<ES(Inf(Inf(S("Hello"), "+", S(" ")), "+", S("World!")))>>),
    Prog("let newAdder = fn(x) { fn(y) { x + y } }; let addTwo = newAdder(2); addTwo(3);",
         <<Let("newAdder", Fn(<<"x">>, <<ES(Fn(<<"y">>, <<ES(Inf(V("x"), "+", V("y")))>>))>>)),
           Let("addTwo", Call(V("newAdder"), <<I(2)>>)),
           ES(Call(V("addTwo"), <<I(3)>>))>>),
    Prog("-true", <<ES(Pre("-", B(TRUE)))>>),
    Prog("if (10 > 1) { if (10 > 1) { return 10; } return 1; }",
         <<ES(If(Inf(I(10), ">", I(1)),
                 <<ES(If(Inf(I(10), ">", I(1)), <<Ret(I(10))>>)), Ret(I(1))>>))>>),
    Prog("if (true) { 1; 2 }", <<ES(If(B(TRUE), <<ES(I(1)), ES(I(2))>>))>>),
    Prog("if (true) { let a = 1; 2; 3 }",
         <<ES(If(B(TRUE), <<Let("a", I(1)), ES(I(2)), ES(I(3))>>))>>),
    Prog("if (true) { let a = 1; }; a", <<ES(If(B(TRUE), <<Let("a", I(1))>>)), ES(V("a"))>>),
    Prog("let f = fn() { return 1; }; f(); 2",
         <<Let("f", Fn(<<>>, <<Ret(I(1))>>)), ES(Call(V("f"), <<>>)), ES(I(2))>>),
    Prog("let f = fn() { return if (true) { return 1; } }; f(); 2",
         <<Let("f", Fn(<<>>, <<Ret(If(B(TRUE), <<Ret(I(1))>>))>>)),
           ES(Call(V("f"), <<>>)), ES(I(2))>>),
    Prog("let f = fn(x) { let y = x; y }; let y = 7; f(1); y",
         <<Let("f", Fn(<<"x">>, <<Let("y", V("x")), ES(V("y"))>>)), Let("y", I(7)),
           ES(Call(V("f"), <<I(1)>>)), ES(V("y"))>>),
    Prog("let x = 1; let f = fn(x) { x }; f(2); x",
         <<Let("x", I(1)), Let("f", Fn(<<"x">>, <<ES(V("x"))>>)),
           ES(Call(V("f"), <<I(2)>>)), ES(V("x"))>>),
    Prog("let f = fn(a, b) { a - b }; f(5, 3, 9)",
         <<Let("f", Fn(<<"a", "b">>, <<ES(Inf(V("a"), "-", V("b")))>>)),
           ES(Call(V("f"), <<I(5), I(3), I(9)>>))>>),
    Prog("let f = fn(a, b) { a }; f(1)",
         <<Let("f", Fn(<<"a", "b">>, <<ES(V("a"))>>)), ES(Call(V("f"), <<I(1)>>))>>),
    Prog("let f = fn(a) { a }; f(1, nope, 2)",
         <<Let("f", Fn(<<"a">>, <<ES(V("a"))>>)),
           ES(Call(V("f"), <<I(1), V("nope"), I(2)>>))>>),
    Prog("nope(1, 2)", <<ES(Call(V("nope"), <<I(1), I(2)>>))>>),
    Prog("let f = fn(a) { a }; f(nope)",
         <<Let("f", Fn(<<"a">>, <<ES(V("a"))>>)), ES(Call(V("f"), <<V("nope")>>))>>),
    Prog("let f = fn(a, b) { 1 }; f(f(nope), 2); 3",
         <<Let("f", Fn(<<"a", "b">>, <<ES(I(1))>>)),
           ES(Call(V("f"), <<Call(V("f"), <<V("nope")>>), I(2)>>)), ES(I(3))>>),
    Prog("5(1)", <<ES(Call(I(5), <<I(1)>>))>>),
    Prog("1 / 0", <<ES(Inf(I(1), "/", I(0)))>>),
    Prog("len(\"abc\")", <<ES(Call(V("len"), <<S("abc")>>))>>),
    Prog("len(1); len()", <<ES(Call(V("len"), <<I(1)>>)), ES(Call(V("len"), <<>>))>>),
    Prog("let f = fn(x, x) { x }; f(1, 2)",
         <<Let("f", Fn(<<"x", "x">>, <<ES(V("x"))>>)), ES(Call(V("f"), <<I(1), I(2)>>))>>),
    Prog("let a = 1; let f = fn() { a }; let g = fn() { let a = 2; f() }; g()",
         <<Let("a", I(1)), Let("f", Fn(<<>>, <<ES(V("a"))>>)),
           Let("g", Fn(<<>>, <<Let("a", I(2)), ES(Call(V("f"), <<>>))>>)),
           ES(Call(V("g"), <<>>))>>),
    Prog("let f = fn() { return 1; }; let g = fn() { f(); 2 }; g()",
         <<Let("f", Fn(<<>>, <<Ret(I(1))>>)),
           Let("g", Fn(<<>>, <<ES(Call(V("f"), <<>>)), ES(I(2))>>)),
           ES(Call(V("g"), <<>>))>>),
    Prog("fn(x) { x; 2 }(1)", <<ES(Call(Fn(<<"x">>, <<ES(V("x")), ES(I(2))>>), <<I(1)>>))>>),
    Prog("if (false) { 1 }; !5; !!true; !(if (false) { 1 })",
         <<ES(If(B(FALSE), <<ES(I(1))>>)), ES(Pre("!", I(5))),
           ES(Pre("!", Pre("!", B(TRUE)))), ES(Pre("!", If(B(FALSE), <<ES(I(1))>>)))>>),
    Prog("[1, 2]", <<ES(ArrayLiteral(<<I(1), I(2)>>))>>),
    Prog("[1] + 1", <<ES(Inf(ArrayLiteral(<<I(1)>>), "+", I(1)))>>),
    Prog("1 + [1]", <<ES(Inf(I(1), "+", ArrayLiteral(<<I(1)>>)))>>),
    Prog("-[1]", <<ES(Pre("-", ArrayLiteral(<<I(1)>>)))>>),
    Prog("[1]()", <<ES(Call(ArrayLiteral(<<I(1)>>), <<>>))>>),
    Prog("let f = fn(n) { if (n < 1) { 0 } else { f(n - 1) } }; f(2)",
         <<Let("f", Fn(<<"n">>, <<ES(IfElse(Inf(V("n"), "<", I(1)), <<ES(I(0))>>,
                                            <<ES(Call(V("f"), <<Inf(V("n"), "-", I(1))>>))>>))>>)),
           ES(Call(V("f"), <<I(2)>>))>>),
    Prog("return 1; nope", <<Ret(I(1)), ES(V("nope"))>>),
    Prog("nope; return 1", <<ES(V("nope")), Ret(I(1))>>),
    Prog("let f = fn() { 1 }; f == f; fn() { 1 } == fn() { 1 }; \"a\" == \"a\"",
         <<Let("f", Fn(<<>>, <<ES(I(1))>>)), ES(Inf(V("f"), "==", V("f"))),
           ES(Inf(Fn(<<>>, <<ES(I(1))>>), "==", Fn(<<>>, <<ES(I(1))>>))),
           ES(Inf(S("a"), "==", S("a")))>>),
    Prog("true == true; 1 < 2 == true; true + false",
         <<ES(Inf(B(TRUE), "==", B(TRUE))), ES(Inf(Inf(I(1), "<", I(2)), "==", B(TRUE))),
           ES(Inf(B(TRUE), "+", B(FALSE)))>>),
    Prog("1 + true", <<ES(Inf(I(1), "+", B(TRUE)))>>),
    Prog("let g = fn(x) { return x; }; g(if (true) { return 1; }); 2",
         <<Let("g", Fn(<<"x">>, <<Ret(V("x"))>>)),
           ES(Call(V("g"), <<If(B(TRUE), <<Ret(I(1))>>)>>)), ES(I(2))>>),
    Prog("", <<>>)
    >>

\* The statements the generated programs are built from.
GenPool ==
    <<Prog("let a = 1;", <<LetStatement("a", IntegerLiteral(1))>>),
      Prog("a;", <<ExpressionStatement(Identifier("a"))>>),
      Prog("return 2;", <<ReturnStatement(IntegerLiteral(2))>>),
      Prog("3;", <<ExpressionStatement(IntegerLiteral(3))>>),
      Prog("if (a == 1) { return a; }",
           <<ExpressionStatement(IfExpression(
               InfixExpression(Identifier("a"), "==", IntegerLiteral(1)),
               BlockStatement(<<ReturnStatement(Identifier("a"))>>), NoNode))>>),
      Prog("let a = a + 1;",
           <<LetStatement("a", InfixExpression(Identifier("a"), "+", IntegerLiteral(1)))>>)>>

RECURSIVE Concat(_, _)
\* The program made of the pool's statements f[1], f[2], ...
Concat(f, k) ==
    IF k > Len(f) THEN Prog("", <<>>)
    ELSE LET rest == Concat(f, k + 1)
         IN  Prog(GenPool[f[k]].src \o (IF rest.src = "" THEN "" ELSE " ") \o rest.src,
                  GenPool[f[k]].Statements \o rest.Statements)

GenChoices == UNION {[1..n -> 1..Len(GenPool)] : n \in 1..MaxStmts}

(***************************************************************************)
(* Spec: evalProgram over a program and a fresh environment, as testEval   *)
(* sets it up; one iteration of the loop over the statements per step.     *)
(***************************************************************************)
NewState == [heap |-> NewEnvironment(<<>>), nextPtr |-> FirstPtr, log |-> <<>>, val |-> Nil]

\* Variant of evalProgramThen that returns the ReturnValue itself; C1's
\* formula rules it out.
evalProgramThenWrapped(r) ==
    IF Panicked(r) THEN [s |-> r, stop |-> "panic", ret |-> r.val]
    ELSE IF r.val.type = RETURN_VALUE_OBJ THEN [s |-> r, stop |-> "return", ret |-> r.val]
    ELSE IF r.val.type = ERROR_OBJ THEN [s |-> r, stop |-> "error", ret |-> r.val]
    ELSE [s |-> r, stop |-> "", ret |-> r.val]

\* One iteration of evalProgram's loop: the state after Eval(statement, env)
\* and whether the loop returns there, with what.
evalProgramThen(r) ==
    IF Panicked(r) THEN [s |-> r, stop |-> "panic", ret |-> r.val]
    ELSE IF r.val.type = RETURN_VALUE_OBJ
    THEN [s |-> r, stop |-> "return", ret |-> r.val.Value]
    ELSE IF r.val.type = ERROR_OBJ THEN [s |-> r, stop |-> "error", ret |-> r.val]
    ELSE [s |-> r, stop |-> "", ret |-> r.val]

evalProgramIter(s, statement, env) == evalProgramThen(Eval(statement, env, s))

\* The parts of the state a machine does not use stay as they are here.
IdleEval ==
    /\ program = Prog("", <<>>) /\ pos = 1 /\ st = NewState /\ results = <<>>
    /\ status = "idle" /\ result = Nil
IdleOps == opArgs = <<>> /\ opOut = Nil /\ opDone = "idle"
IdleEnv == envs = <<>> /\ envOp = [op |-> "idle"]
IdleLex == lexer = [input |-> <<>>] /\ tokens = <<>>
IdleParse == parser = [errors |-> <<>>] /\ parseOut = [phase |-> "idle"]
IdleCompile ==
    compiler = [instructions |-> <<>>] /\ compileJob = [phase |-> "idle"] /\ walk = [phase |-> "idle"]
IdleVM == machine = [sp |-> 0] /\ run = [status |-> "idle"]
IdleSym == symbolTable = [numDefinitions |-> 0] /\ defines = <<>> /\ resolved = [phase |-> "idle"]
IdleCode == made = [phase |-> "idle"] /\ listing = [phase |-> "idle"]

Init ==
    /\ \/ \E i \in 1..Len(Corpus) : program = Corpus[i]
       \/ \E f \in GenChoices : program = Concat(f, 1)
    /\ pos = 1
    /\ st = NewState
    /\ results = <<>>
    /\ status = "running"
    /\ result = Nil
    /\ IdleOps
    /\ IdleEnv
    /\ IdleLex
    /\ IdleParse
    /\ IdleCompile
    /\ IdleVM
    /\ IdleSym
    /\ IdleCode

\* An iteration of `for _, statement := range stmts` that returns from the loop.
ProgramStop ==
    /\ status = "running"
    /\ pos <= Len(program.Statements)
    /\ LET it == evalProgramIter(st, program.Statements[pos], 1)
       IN  /\ it.stop # ""
           /\ st' = it.s
           /\ results' = Append(results, [stmt |-> pos, val |-> it.s.val])
           /\ status' = it.stop
           /\ result' = it.ret
    /\ UNCHANGED <<program, pos>>
    /\ UNCHANGED exceptEval

\* An iteration that goes on to the next statement.
ProgramStep ==
    /\ status = "running"
    /\ pos <= Len(program.Statements)
    /\ LET it == evalProgramIter(st, program.Statements[pos], 1)
       IN  /\ it.stop = ""
           /\ st' = it.s
           /\ results' = Append(results, [stmt |-> pos, val |-> it.s.val])
           /\ pos' = pos + 1
    /\ UNCHANGED <<program, status, result>>
    /\ UNCHANGED exceptEval

\* The loop is over: `return result`, the last statement's result (nil if none).
ProgramEnd ==
    /\ status = "running"
    /\ pos > Len(program.Statements)
    /\ status' = "end"
    /\ result' = st.val
    /\ UNCHANGED <<program, pos, st, results>>
    /\ UNCHANGED exceptEval

Next == ProgramStop \/ ProgramStep \/ ProgramEnd

Spec == Init /\ [][Next]_vars

(***************************************************************************)
(* SpecOps: the operator functions applied to drawn operands.  An operand  *)
(* is any object Eval can hand to an operator: an Integer of the modelled  *)
(* width, the three singletons, a String, a Function (the same object on   *)
(* both sides, or one of its own), the builtin, a ReturnValue (an argument *)
(* `if (true) { return 1; }` binds one) or nil (an empty block's result).  *)
(* An Error is no operand: Eval returns it before it reaches an operator.  *)
(***************************************************************************)
InfixOperators == <<"+", "-", "*", "/", "<", ">", "==", "!=">>
PrefixOperators == <<"!", "-">>

\* The operands of one side; slot is 1 for the left side and 2 for the right.
Operands(slot) ==
    [k \in 1..(MaxInt - MinInt + 1) |->
        [type |-> INTEGER_OBJ, Value |-> MinInt + k - 1, ptr |-> FirstPtr + slot]]
    \o <<TRUE_OBJ, FALSE_OBJ, NULL, Nil, builtins["len"],
         [type |-> STRING_OBJ, Value |-> "a", ptr |-> FirstPtr + slot],
         [type |-> STRING_OBJ, Value |-> "b", ptr |-> FirstPtr + slot],
         [type |-> FUNCTION_OBJ, Parameters |-> <<>>, Body |-> BlockStatement(<<>>),
          Env |-> 1, ptr |-> FirstPtr],
         [type |-> FUNCTION_OBJ, Parameters |-> <<>>, Body |-> BlockStatement(<<>>),
          Env |-> 1, ptr |-> FirstPtr + slot],
         [type |-> RETURN_VALUE_OBJ, Value |-> TRUE_OBJ, ptr |-> FirstPtr + slot]>>

\* The evaluator state the operators run in: the operands are allocated.
OpState == [NewState EXCEPT !.nextPtr = FirstPtr + 3]

\* `if (x) { 1 } else { 0 }`, evaluated from the point where x's value is known.
IfOnOperand ==
    IfExpression(Identifier("x"),
                 BlockStatement(<<ExpressionStatement(IntegerLiteral(1))>>),
                 BlockStatement(<<ExpressionStatement(IntegerLiteral(0))>>))

InitOps ==
    /\ \/ \E o \in 1..Len(InfixOperators), l \in 1..Len(Operands(1)), r \in 1..Len(Operands(2)) :
            opArgs = [arity |-> 2, operator |-> InfixOperators[o],
                      left |-> Operands(1)[l], right |-> Operands(2)[r]]
       \/ \E o \in 1..Len(PrefixOperators), l \in 1..Len(Operands(1)) :
            opArgs = [arity |-> 1, operator |-> PrefixOperators[o],
                      left |-> Operands(1)[l], right |-> Nil]
    /\ opOut = Nil
    /\ opDone = "drawn"
    /\ IdleEval
    /\ IdleEnv
    /\ IdleLex
    /\ IdleParse
    /\ IdleCompile
    /\ IdleVM
    /\ IdleSym
    /\ IdleCode

\* evalInfixExpression(operator, left, right)
ApplyInfix ==
    /\ opDone = "drawn"
    /\ opArgs.arity = 2
    /\ opOut' = [res |-> evalInfixExpression(OpState, opArgs.operator,
                                             opArgs.left, opArgs.right).val,
                 cond |-> Nil]
    /\ opDone' = "infix"
    /\ UNCHANGED <<opArgs, exceptOps>>

\* evalPrefixExpression(operator, right), the operand being opArgs.left
ApplyPrefix ==
    /\ opDone = "drawn"
    /\ opArgs.arity = 1
    /\ opOut' = [res |-> evalPrefixExpression(OpState, opArgs.operator, opArgs.left).val,
                 cond |-> Nil]
    /\ opDone' = "prefix"
    /\ UNCHANGED <<opArgs, exceptOps>>

\* evalIfExpression on a condition whose value is the operand
ApplyIf ==
    /\ opDone = "prefix"
    /\ opOut' = [opOut EXCEPT
                   !.cond = evalIfThen([OpState EXCEPT !.val = opArgs.left], IfOnOperand, 1).val]
    /\ opDone' = "if"
    /\ UNCHANGED <<opArgs, exceptOps>>

NextOps == ApplyInfix \/ ApplyPrefix \/ ApplyIf

SpecOps == InitOps /\ [][NextOps]_vars

(***************************************************************************)
(* SpecEnv: environments built and used through NewEnvironment,            *)
(* NewEnclosedEnvironment, Set and Get; envOp records the last call.       *)
(***************************************************************************)
EnvNames == {"a"}

\* The objects stored: two Integers.
EnvValue(v) == [type |-> INTEGER_OBJ, Value |-> v, ptr |-> FirstPtr + v]
EnvValues == {EnvValue(1), EnvValue(2)}

InitEnv ==
    /\ envs = <<>>
    /\ envOp = [op |-> "idle"]
    /\ IdleEval
    /\ IdleOps
    /\ IdleLex
    /\ IdleParse
    /\ IdleCompile
    /\ IdleVM
    /\ IdleSym
    /\ IdleCode

EnvNew ==
    /\ Len(envs) < MaxEnvs
    /\ envs' = NewEnvironment(envs)
    /\ envOp' = [op |-> "new", env |-> Len(envs) + 1, before |-> envs]
    /\ UNCHANGED exceptEnv

EnvNewEnclosed ==
    /\ Len(envs) < MaxEnvs
    /\ \E outer \in 1..Len(envs) :
          /\ envs' = NewEnclosedEnvironment(envs, outer)
          /\ envOp' = [op |-> "enclosed", env |-> Len(envs) + 1, outer |-> outer,
                       before |-> envs]
    /\ UNCHANGED exceptEnv

EnvSet ==
    /\ \E e \in 1..Len(envs), name \in EnvNames, val \in EnvValues :
          /\ envs' = Set(envs, e, name, val)
          /\ envOp' = [op |-> "set", env |-> e, name |-> name, val |-> val, before |-> envs]
    /\ UNCHANGED exceptEnv

EnvGet ==
    /\ \E e \in 1..Len(envs), name \in EnvNames :
          envOp' = [op |-> "get", env |-> e, name |-> name,
                    obj |-> Get(envs, e, name).obj, ok |-> Get(envs, e, name).ok]
    /\ UNCHANGED <<envs, exceptEnv>>

NextEnv == EnvNew \/ EnvNewEnclosed \/ EnvSet \/ EnvGet

SpecEnv == InitEnv /\ [][NextEnv]_vars

(***************************************************************************)
(* The lexer.  The input is a sequence of bytes, each a one-character      *)
(* string; NUL is the byte 0, which is also what ch holds past the end.    *)
(* Positions count from 0 as in the source.                                *)
(***************************************************************************)
NUL == "NUL"

Letters ==
    {"a", "b", "c", "d", "e", "f", "g", "h", "i", "j", "k", "l", "m", "n", "o", "p", "q",
     "r", "s", "t", "u", "v", "w", "x", "y", "z",
     "A", "B", "C", "D", "E", "F", "G", "H", "I", "J", "K", "L", "M", "N", "O", "P", "Q",
     "R", "S", "T", "U", "V", "W", "X", "Y", "Z", "_"}
Digits == {"0", "1", "2", "3", "4", "5", "6", "7", "8", "9"}
Whitespace == {" ", "\r", "\t", "\n"}

isLetter(ch) == ch \in Letters
isDigit(ch) == ch \in Digits

\* string(bytes): the text of a slice of the input.
RECURSIVE BytesToString(_)
BytesToString(bytes) ==
    IF bytes = <<>> THEN "" ELSE bytes[1] \o BytesToString(Tail(bytes))

\* l.input[from:to]
Slice(input, from, to) == BytesToString(SubSeq(input, from + 1, to))

ILLEGAL == "ILLEGAL"
EOF == "EOF"
IDENT == "IDENT"
INT == "INT"
FUNCTION == "FUNCTION"
LET_TOKEN == "LET"
TRUE_TOKEN == "TRUE"
FALSE_TOKEN == "FALSE"
IF_TOKEN == "IF"
ELSE_TOKEN == "ELSE"
RETURN == "RETURN"

keywords ==
    [k \in {"fn", "let", "true", "false", "if", "else", "return"} |->
        CASE k = "fn" -> FUNCTION
          [] k = "let" -> LET_TOKEN
          [] k = "true" -> TRUE_TOKEN
          [] k = "false" -> FALSE_TOKEN
          [] k = "if" -> IF_TOKEN
          [] k = "else" -> ELSE_TOKEN
          [] k = "return" -> RETURN]

LookupIdent(ident) == IF ident \in DOMAIN keywords THEN keywords[ident] ELSE IDENT

\* The token types of the one-byte tokens, named by their byte.
SingleByteTokens == {"+", "-", "/", "*", "<", ">", ";", ",", "(", ")", "{", "}"}

Token(type, literal) == [Type |-> type, Literal |-> literal]
newToken(tokenType, ch) == Token(tokenType, ch)

readChar(l) ==
    [l EXCEPT !.ch = IF l.readPosition >= Len(l.input) THEN NUL
                     ELSE l.input[l.readPosition + 1],
              !.position = l.readPosition,
              !.readPosition = l.readPosition + 1]

peekChar(l) ==
    IF l.readPosition >= Len(l.input) THEN NUL ELSE l.input[l.readPosition + 1]

LexerNew(input) ==
    readChar([input |-> input, position |-> 0, readPosition |-> 0, ch |-> NUL])

RECURSIVE skipWhitespace(_)
skipWhitespace(l) == IF l.ch \in Whitespace THEN skipWhitespace(readChar(l)) ELSE l

\* The loop of readIdentifier: the lexer after it.
RECURSIVE readLetters(_)
readLetters(l) == IF isLetter(l.ch) THEN readLetters(readChar(l)) ELSE l

\* The loop of readNumber: the lexer after it.
RECURSIVE readDigits(_)
readDigits(l) == IF isDigit(l.ch) THEN readDigits(readChar(l)) ELSE l

\* Variant of readIdentifier whose slice ends one byte early; C12's formula
\* rules it out.
readIdentifierShort(l) ==
    [l |-> readLetters(l), text |-> Slice(l.input, l.position, readLetters(l).position - 1)]

\* readIdentifier and readNumber: the lexer after the loop and the slice read.
readIdentifier(l) ==
    [l |-> readLetters(l), text |-> Slice(l.input, l.position, readLetters(l).position)]
readNumber(l) ==
    [l |-> readDigits(l), text |-> Slice(l.input, l.position, readDigits(l).position)]

\* NextToken once the whitespace is skipped: the lexer after the call and the
\* token returned.
nextTokenAt(l) ==
    CASE l.ch \in {"=", "!"} ->
           IF peekChar(l) = "="
           THEN [l |-> readChar(readChar(l)),
                 tok |-> Token(IF l.ch = "=" THEN "==" ELSE "!=", l.ch \o readChar(l).ch)]
           ELSE [l |-> readChar(l), tok |-> newToken(l.ch, l.ch)]
      [] l.ch \in SingleByteTokens -> [l |-> readChar(l), tok |-> newToken(l.ch, l.ch)]
      [] l.ch = NUL -> [l |-> readChar(l), tok |-> Token(EOF, "")]
      [] OTHER ->
           IF isLetter(l.ch)
           THEN [l |-> readIdentifier(l).l,
                 tok |-> Token(LookupIdent(readIdentifier(l).text), readIdentifier(l).text)]
           ELSE IF isDigit(l.ch)
           THEN [l |-> readNumber(l).l, tok |-> Token(INT, readNumber(l).text)]
           ELSE [l |-> readChar(l), tok |-> newToken(ILLEGAL, l.ch)]

\* NextToken: the lexer after the call, the token, and (history) the position
\* the token starts at, after the whitespace.
NextToken(l) ==
    [l |-> nextTokenAt(skipWhitespace(l)).l,
     tok |-> nextTokenAt(skipWhitespace(l)).tok,
     start |-> skipWhitespace(l).position]

(***************************************************************************)
(* SpecLex: a lexer made over an input of up to MaxInputLen bytes, and     *)
(* NextToken called on it again and again.                                 *)
(***************************************************************************)
\* Longest input, in bytes.
MaxInputLen == 4

\* The bytes the inputs are made of: an operator that pairs with `=`, a
\* letter pair that spells a keyword, a digit, a blank, the byte 0 and a
\* byte no token starts with.
LexBytes == {"=", "!", "i", "f", "1", " ", NUL, "@"}

LexInputs == UNION {[1..n -> LexBytes] : n \in 0..MaxInputLen}

InitLex ==
    /\ \E input \in LexInputs : lexer = LexerNew(input)
    /\ tokens = <<>>
    /\ IdleEval
    /\ IdleOps
    /\ IdleEnv
    /\ IdleParse
    /\ IdleCompile
    /\ IdleVM
    /\ IdleSym
    /\ IdleCode

\* tok := l.NextToken(); calls beyond the input's length plus three add nothing.
LexNextToken ==
    /\ "ch" \in DOMAIN lexer
    /\ Len(tokens) < Len(lexer.input) + 3
    /\ lexer' = NextToken(lexer).l
    /\ tokens' = Append(tokens, [tok |-> NextToken(lexer).tok,
                                 start |-> NextToken(lexer).start,
                                 next |-> NextToken(lexer).l.position])
    /\ UNCHANGED exceptLex

NextLex == LexNextToken

SpecLex == InitLex /\ [][NextLex]_vars

(***************************************************************************)
(* The parser (src/parser/parser.go).  A parser p holds its lexer, the     *)
(* current and the next token and the errors so far.  Each parse function  *)
(* takes the parser and gives [p, node]: the parser after the call and the *)
(* node returned.  A function that continues after a call takes the call's *)
(* result as a parameter.  NoNode is the nil interface; a nil slice is     *)
(* written <<>>.  Parsed nodes carry their Token; the name of a let and    *)
(* the parameters of a function are Identifier nodes.                      *)
(***************************************************************************)
ASSIGN == "="
PLUS == "+"
MINUS == "-"
BANG == "!"
ASTERISK == "*"
SLASH == "/"
LT == "<"
GT == ">"
EQ == "=="
NE == "!="
COMMA == ","
SEMICOLON == ";"
COLON == ":"
LPAREN == "("
RPAREN == ")"
LBRACE == "{"
RBRACE == "}"
LBRACKET == "["
RBRACKET == "]"
STRING_TOKEN == "STRING"

LOWEST == 1
EQUALS == 2
LESSGREATER == 3
SUM == 4
PRODUCT == 5
PREFIX == 6
CALL == 7
INDEX == 8

\* Variant of the precedence table that ranks the additive operators with
\* the multiplicative ones; C13's formula rules it out.
precedencesFlat ==
    [t \in {EQ, NE, LT, GT, PLUS, MINUS, SLASH, ASTERISK, LPAREN, LBRACKET} |->
        CASE t \in {EQ, NE} -> EQUALS
          [] t \in {LT, GT} -> LESSGREATER
          [] t \in {PLUS, MINUS, SLASH, ASTERISK} -> PRODUCT
          [] t = LPAREN -> CALL
          [] t = LBRACKET -> INDEX]

precedences ==
    [t \in {EQ, NE, LT, GT, PLUS, MINUS, SLASH, ASTERISK, LPAREN, LBRACKET} |->
        CASE t \in {EQ, NE} -> EQUALS
          [] t \in {LT, GT} -> LESSGREATER
          [] t \in {PLUS, MINUS} -> SUM
          [] t \in {SLASH, ASTERISK} -> PRODUCT
          [] t = LPAREN -> CALL
          [] t = LBRACKET -> INDEX]

\* The token types New registers a prefix and an infix parse function for.
prefixParseFns ==
    {IDENT, INT, BANG, MINUS, TRUE_TOKEN, FALSE_TOKEN, LPAREN, IF_TOKEN, FUNCTION, STRING_TOKEN,
     LBRACKET, LBRACE}
infixParseFns == {PLUS, MINUS, SLASH, ASTERISK, EQ, NE, LT, GT, LPAREN, LBRACKET}

\* A node with the token it was made from.
WithToken(tok, node) == [Token |-> tok] @@ node

\* The nil *ast.LetStatement that parseLetStatement returns on a failed
\* expectPeek.  parseStatement returns it as an ast.Statement, an interface
\* value that holds the nil pointer and is not equal to nil.
NilLetStatement == [kind |-> "nil *ast.LetStatement"]

HashLiteral(pairs) == [kind |-> "HashLiteral", Pairs |-> pairs]
IndexExpression(left, index) == [kind |-> "IndexExpression", Left |-> left, Index |-> index]

Parsed(p, node) == [p |-> p, node |-> node]

nextToken(p) ==
    [p EXCEPT !.curToken = p.peekToken,
              !.peekToken = NextToken(p.lex).tok,
              !.lex = NextToken(p.lex).l]

ParserNew(l) ==
    nextToken(nextToken([lex |-> l, curToken |-> Token("", ""), peekToken |-> Token("", ""),
                         errors |-> <<>>]))

curTokenIs(p, t) == p.curToken.Type = t
peekTokenIs(p, t) == p.peekToken.Type = t

peekError(p, t) ==
    [p EXCEPT !.errors =
        Append(@, "expected next token to be " \o t \o ", but got " \o p.peekToken.Type
                  \o " instead")]

\* expectPeek: the parser after the call and the boolean returned.
expectPeek(p, t) ==
    IF peekTokenIs(p, t) THEN [p |-> nextToken(p), ok |-> TRUE]
    ELSE [p |-> peekError(p, t), ok |-> FALSE]

noPrefixParseFnError(p, t) ==
    [p EXCEPT !.errors = Append(@, "no prefix parse function for " \o t \o " found")]

peekPrecedence(p) ==
    IF p.peekToken.Type \in DOMAIN precedences THEN precedences[p.peekToken.Type] ELSE LOWEST
curPrecedence(p) ==
    IF p.curToken.Type \in DOMAIN precedences THEN precedences[p.curToken.Type] ELSE LOWEST

\* if p.peekTokenIs(token.SEMICOLON) { p.nextToken() }
skipSemicolon(p) == IF peekTokenIs(p, SEMICOLON) THEN nextToken(p) ELSE p

DigitValue ==
    [d \in Digits |->
        CASE d = "0" -> 0 [] d = "1" -> 1 [] d = "2" -> 2 [] d = "3" -> 3 [] d = "4" -> 4
          [] d = "5" -> 5 [] d = "6" -> 6 [] d = "7" -> 7 [] d = "8" -> 8 [] d = "9" -> 9]

RECURSIVE ParseDigits(_, _, _)
ParseDigits(s, base, acc) ==
    IF Len(s) = 0 THEN [ok |-> TRUE, value |-> acc]
    ELSE IF DigitValue[Head(s)] >= base THEN [ok |-> FALSE, value |-> 0]
    ELSE ParseDigits(Tail(s), base, acc * base + DigitValue[Head(s)])

\* strconv.ParseInt(s, 0, 64) on a run of digits: a leading 0 selects base 8.
\* The inputs are too short to leave the range of int64.
ParseInt(s) ==
    IF Len(s) > 1 /\ Head(s) = "0" THEN ParseDigits(Tail(s), 8, 0) ELSE ParseDigits(s, 10, 0)

identifierOf(tok) == WithToken(tok, Identifier(tok.Literal))

parseIdentifier(p) == Parsed(p, identifierOf(p.curToken))

\* The literal is returned also when ParseInt fails, with the value ParseInt
\* gives beside a syntax error, 0.
parseIntegerLiteral(p) ==
    IF ParseInt(p.curToken.Literal).ok
    THEN Parsed(p, WithToken(p.curToken, IntegerLiteral(ParseInt(p.curToken.Literal).value)))
    ELSE Parsed([p EXCEPT !.errors =
                    Append(@, "could not parse \"" \o p.curToken.Literal \o "\" as integer")],
                WithToken(p.curToken, IntegerLiteral(0)))

parseStringLiteral(p) == Parsed(p, WithToken(p.curToken, StringLiteral(p.curToken.Literal)))

parseBoolean(p) == Parsed(p, WithToken(p.curToken, BooleanLit(curTokenIs(p, TRUE_TOKEN))))

RECURSIVE parseExpression(_, _)
RECURSIVE parseStatement(_)
RECURSIVE parseBlockStatement(_)
RECURSIVE parseExpressionList(_, _)

prefixExpressionThen(tok, r) ==
    Parsed(r.p, WithToken(tok, PrefixExpression(tok.Literal, r.node)))
parsePrefixExpression(p) == prefixExpressionThen(p.curToken, parseExpression(nextToken(p), PREFIX))

infixExpressionThen(tok, left, r) ==
    Parsed(r.p, WithToken(tok, InfixExpression(left, tok.Literal, r.node)))
parseInfixExpression(p, left) ==
    infixExpressionThen(p.curToken, left, parseExpression(nextToken(p), curPrecedence(p)))

groupedRParen(e, exp) == IF e.ok THEN Parsed(e.p, exp) ELSE Parsed(e.p, NoNode)
groupedThen(r) == groupedRParen(expectPeek(r.p, RPAREN), r.node)
parseGroupedExpression(p) == groupedThen(parseExpression(nextToken(p), LOWEST))

ifAlternative(tok, cond, cons, r) == Parsed(r.p, WithToken(tok, IfExpression(cond, cons, r.node)))
ifElse(tok, cond, cons, e) ==
    IF ~e.ok THEN Parsed(e.p, NoNode)
    ELSE ifAlternative(tok, cond, cons, parseBlockStatement(e.p))
ifConsequence(tok, cond, r) ==
    IF peekTokenIs(r.p, ELSE_TOKEN)
    THEN ifElse(tok, cond, r.node, expectPeek(nextToken(r.p), LBRACE))
    ELSE Parsed(r.p, WithToken(tok, IfExpression(cond, r.node, NoNode)))
ifLBrace(tok, cond, e) ==
    IF ~e.ok THEN Parsed(e.p, NoNode) ELSE ifConsequence(tok, cond, parseBlockStatement(e.p))
ifRParen(tok, cond, e) ==
    IF ~e.ok THEN Parsed(e.p, NoNode) ELSE ifLBrace(tok, cond, expectPeek(e.p, LBRACE))
ifCondition(tok, r) == ifRParen(tok, r.node, expectPeek(r.p, RPAREN))
ifLParen(tok, e) ==
    IF ~e.ok THEN Parsed(e.p, NoNode)
    ELSE ifCondition(tok, parseExpression(nextToken(e.p), LOWEST))
parseIfExpression(p) == ifLParen(p.curToken, expectPeek(p, LPAREN))

\* The loop of parseFunctionParameters, entered with the current token a
\* parameter just appended.
RECURSIVE parametersLoop(_, _)
parametersNext(p, identifiers) ==
    parametersLoop(p, Append(identifiers, identifierOf(p.curToken)))
parametersRParen(e, identifiers) ==
    IF e.ok THEN Parsed(e.p, identifiers) ELSE Parsed(e.p, <<>>)
parametersLoop(p, identifiers) ==
    IF peekTokenIs(p, COMMA) THEN parametersNext(nextToken(nextToken(p)), identifiers)
    ELSE parametersRParen(expectPeek(p, RPAREN), identifiers)
parseFunctionParameters(p) ==
    IF peekTokenIs(p, RPAREN) THEN Parsed(nextToken(p), <<>>)
    ELSE parametersNext(nextToken(p), <<>>)

functionBody(tok, params, r) ==
    Parsed(r.p, WithToken(tok, [Name |-> ""] @@ FunctionLiteral(params, r.node)))
functionLBrace(tok, params, e) ==
    IF ~e.ok THEN Parsed(e.p, NoNode) ELSE functionBody(tok, params, parseBlockStatement(e.p))
functionParameters(tok, r) == functionLBrace(tok, r.node, expectPeek(r.p, LBRACE))
functionLParen(tok, e) ==
    IF ~e.ok THEN Parsed(e.p, NoNode) ELSE functionParameters(tok, parseFunctionParameters(e.p))
parseFunctionLiteral(p) == functionLParen(p.curToken, expectPeek(p, LPAREN))

\* The loop of parseExpressionList, entered after an element was parsed.
RECURSIVE listLoop(_, _, _)
listNext(r, list, end) == listLoop(r.p, Append(list, r.node), end)
listEnd(e, list) == IF e.ok THEN Parsed(e.p, list) ELSE Parsed(e.p, <<>>)
listLoop(p, list, end) ==
    IF peekTokenIs(p, COMMA)
    THEN listNext(parseExpression(nextToken(nextToken(p)), LOWEST), list, end)
    ELSE listEnd(expectPeek(p, end), list)
parseExpressionList(p, end) ==
    IF peekTokenIs(p, end) THEN Parsed(nextToken(p), <<>>)
    ELSE listNext(parseExpression(nextToken(p), LOWEST), <<>>, end)

callThen(tok, function, r) == Parsed(r.p, WithToken(tok, CallExpression(function, r.node)))
parseCallExpression(p, function) ==
    callThen(p.curToken, function, parseExpressionList(p, RPAREN))

arrayThen(tok, r) == Parsed(r.p, WithToken(tok, ArrayLiteral(r.node)))
parseArrayLiteral(p) == arrayThen(p.curToken, parseExpressionList(p, RBRACKET))

indexRBracket(tok, left, index, e) ==
    IF e.ok THEN Parsed(e.p, WithToken(tok, IndexExpression(left, index)))
    ELSE Parsed(e.p, NoNode)
indexThen(tok, left, r) == indexRBracket(tok, left, r.node, expectPeek(r.p, RBRACKET))
parseIndexExpression(p, left) ==
    indexThen(p.curToken, left, parseExpression(nextToken(p), LOWEST))

\* parseHashLiteral; Pairs lists the pairs in the order they were parsed.
RECURSIVE hashLoop(_, _, _)
hashRBrace(tok, pairs, e) ==
    IF e.ok THEN Parsed(e.p, WithToken(tok, HashLiteral(pairs))) ELSE Parsed(e.p, NoNode)
hashComma(tok, pairs, e) ==
    IF ~e.ok THEN Parsed(e.p, NoNode) ELSE hashLoop(e.p, tok, pairs)
hashValue(tok, pairs, key, r) ==
    IF peekTokenIs(r.p, RBRACE) THEN hashLoop(r.p, tok, Append(pairs, <<key, r.node>>))
    ELSE hashComma(tok, Append(pairs, <<key, r.node>>), expectPeek(r.p, COMMA))
hashColon(tok, pairs, key, e) ==
    IF ~e.ok THEN Parsed(e.p, NoNode)
    ELSE hashValue(tok, pairs, key, parseExpression(nextToken(e.p), LOWEST))
hashKey(tok, pairs, r) == hashColon(tok, pairs, r.node, expectPeek(r.p, COLON))
hashLoop(p, tok, pairs) ==
    IF ~peekTokenIs(p, RBRACE) THEN hashKey(tok, pairs, parseExpression(nextToken(p), LOWEST))
    ELSE hashRBrace(tok, pairs, expectPeek(p, RBRACE))
parseHashLiteral(p) == hashLoop(p, p.curToken, <<>>)

\* prefix := p.prefixParseFns[p.curToken.Type]; prefix()
prefixParseFn(p) ==
    CASE p.curToken.Type = IDENT -> parseIdentifier(p)
      [] p.curToken.Type = INT -> parseIntegerLiteral(p)
      [] p.curToken.Type \in {BANG, MINUS} -> parsePrefixExpression(p)
      [] p.curToken.Type \in {TRUE_TOKEN, FALSE_TOKEN} -> parseBoolean(p)
      [] p.curToken.Type = LPAREN -> parseGroupedExpression(p)
      [] p.curToken.Type = IF_TOKEN -> parseIfExpression(p)
      [] p.curToken.Type = FUNCTION -> parseFunctionLiteral(p)
      [] p.curToken.Type = STRING_TOKEN -> parseStringLiteral(p)
      [] p.curToken.Type = LBRACKET -> parseArrayLiteral(p)
      [] p.curToken.Type = LBRACE -> parseHashLiteral(p)

\* infix := p.infixParseFns[p.curToken.Type]; infix(leftExp)
infixParseFn(p, leftExp) ==
    CASE p.curToken.Type = LPAREN -> parseCallExpression(p, leftExp)
      [] p.curToken.Type = LBRACKET -> parseIndexExpression(p, leftExp)
      [] OTHER -> parseInfixExpression(p, leftExp)

\* The loop of parseExpression; r holds the parser and leftExp.
RECURSIVE infixLoop(_, _)
infixLoop(r, precedence) ==
    IF ~peekTokenIs(r.p, SEMICOLON) /\ precedence < peekPrecedence(r.p)
    THEN IF r.p.peekToken.Type \notin infixParseFns THEN r
         ELSE infixLoop(infixParseFn(nextToken(r.p), r.node), precedence)
    ELSE r

parseExpression(p, precedence) ==
    IF p.curToken.Type \notin prefixParseFns
    THEN Parsed(noPrefixParseFnError(p, p.curToken.Type), NoNode)
    ELSE infixLoop(prefixParseFn(p), precedence)

\* if fl, ok := stmt.Value.(*ast.FunctionLiteral); ok { fl.Name = stmt.Name.Value }
namedFunction(value, name) ==
    IF value.kind = "FunctionLiteral" THEN [value EXCEPT !.Name = name.Value] ELSE value

letValue(tok, name, r) ==
    Parsed(skipSemicolon(r.p), WithToken(tok, LetStatement(name, namedFunction(r.node, name))))
letAssign(tok, name, e) ==
    IF ~e.ok THEN Parsed(e.p, NilLetStatement)
    ELSE letValue(tok, name, parseExpression(nextToken(e.p), LOWEST))
letIdent(tok, e) ==
    IF ~e.ok THEN Parsed(e.p, NilLetStatement)
    ELSE letAssign(tok, identifierOf(e.p.curToken), expectPeek(e.p, ASSIGN))
parseLetStatement(p) == letIdent(p.curToken, expectPeek(p, IDENT))

returnValue(tok, r) == Parsed(skipSemicolon(r.p), WithToken(tok, ReturnStatement(r.node)))
parseReturnStatement(p) == returnValue(p.curToken, parseExpression(nextToken(p), LOWEST))

expressionThen(tok, r) == Parsed(skipSemicolon(r.p), WithToken(tok, ExpressionStatement(r.node)))
parseExpressionStatement(p) == expressionThen(p.curToken, parseExpression(p, LOWEST))

parseStatement(p) ==
    CASE p.curToken.Type = LET_TOKEN -> parseLetStatement(p)
      [] p.curToken.Type = RETURN -> parseReturnStatement(p)
      [] OTHER -> parseExpressionStatement(p)

\* One turn of the loop of ParseProgram and of parseBlockStatement: the
\* statements with stmt appended when stmt != nil.
appendStatement(statements, stmt) ==
    IF stmt # NoNode THEN Append(statements, stmt) ELSE statements

RECURSIVE blockLoop(_, _, _)
blockNext(r, tok, statements) ==
    blockLoop(nextToken(r.p), tok, appendStatement(statements, r.node))
blockLoop(p, tok, statements) ==
    IF ~curTokenIs(p, RBRACE) /\ ~curTokenIs(p, EOF)
    THEN blockNext(parseStatement(p), tok, statements)
    ELSE Parsed(p, WithToken(tok, BlockStatement(statements)))
parseBlockStatement(p) == blockLoop(nextToken(p), p.curToken, <<>>)

\* ParseProgram: the parser after the call and the statements of the program.
RECURSIVE programLoop(_, _)
\* Variant of programTurn without the p.nextToken() that ends the turn;
\* C27's formula rules it out.
programTurnInPlace(p) == parseStatement(p).p

\* The parser after one turn of the loop of ParseProgram: parseStatement,
\* then nextToken.
programTurn(p) == nextToken(parseStatement(p).p)

programNext(r, statements) == programLoop(nextToken(r.p), appendStatement(statements, r.node))
programLoop(p, statements) ==
    IF ~curTokenIs(p, EOF) THEN programNext(parseStatement(p), statements)
    ELSE Parsed(p, statements)
ParseProgram(p) == programLoop(p, <<>>)

(***************************************************************************)
(* The String methods of the nodes (src/interpreter/ast/ast.go).  They are *)
(* applied to programs parsed without errors, which hold no nil node but   *)
(* the absent Alternative of an if, and no hash literal: its String is not *)
(* in the source tree, and the lexer gives no colon to write a pair with.  *)
(***************************************************************************)
RECURSIVE String(_)
RECURSIVE StatementsString(_)
RECURSIVE Join(_, _)

\* strings.Join of the String() of each node.
Join(nodes, sep) ==
    IF nodes = <<>> THEN ""
    ELSE IF Len(nodes) = 1 THEN String(nodes[1])
    ELSE String(nodes[1]) \o sep \o Join(Tail(nodes), sep)

\* for _, s := range statements { out.WriteString(s.String()) }
StatementsString(statements) ==
    IF statements = <<>> THEN ""
    ELSE String(statements[1]) \o StatementsString(Tail(statements))

String(node) ==
    CASE node.kind = "LetStatement" ->
           node.Token.Literal \o " " \o String(node.Name) \o " = "
           \o (IF node.Value # NoNode THEN String(node.Value) ELSE "") \o ";"
      [] node.kind = "ReturnStatement" ->
           node.Token.Literal \o " "
           \o (IF node.ReturnValue # NoNode THEN String(node.ReturnValue) ELSE "") \o ";"
      [] node.kind = "ExpressionStatement" ->
           IF node.Expression # NoNode THEN String(node.Expression) ELSE ""
      [] node.kind = "Identifier" -> node.Value
      [] node.kind \in {"IntegerLiteral", "Boolean", "StringLiteral"} -> node.Token.Literal
      [] node.kind = "PrefixExpression" -> "(" \o node.Operator \o String(node.Right) \o ")"
      [] node.kind = "InfixExpression" ->
           "(" \o String(node.Left) \o " " \o node.Operator \o " " \o String(node.Right) \o ")"
      [] node.kind = "IfExpression" ->
           "if" \o String(node.Condition) \o " " \o String(node.Consequence)
           \o (IF node.Alternative # NoNode THEN "else " \o String(node.Alternative) ELSE "")
      [] node.kind = "BlockStatement" -> StatementsString(node.Statements)
      [] node.kind = "FunctionLiteral" ->
           node.Token.Literal \o "(" \o Join(node.Parameters, ", ") \o ")" \o String(node.Body)
      [] node.kind = "CallExpression" ->
           String(node.Function) \o "(" \o Join(node.Arguments, ", ") \o ")"
      [] node.kind = "ArrayLiteral" -> "[" \o Join(node.Elements, ", ") \o "]"
      [] node.kind = "IndexExpression" ->
           "(" \o String(node.Left) \o "[" \o String(node.Index) \o "])"

\* Program.String()
ProgramString(statements) == StatementsString(statements)

(***************************************************************************)
(* SpecParse: a parser made over the lexer of a source text, ParseProgram  *)
(* run on it one statement at a time, and then, when the text parsed       *)
(* without errors, the program printed and the print parsed again.         *)
(***************************************************************************)
\* The bytes of a text.
RECURSIVE StringToBytes(_)
StringToBytes(s) == IF Len(s) = 0 THEN <<>> ELSE <<Head(s)>> \o StringToBytes(Tail(s))

\* parser.New(lexer.New(input))
ParseNew(src) == ParserNew(LexerNew(StringToBytes(src)))

BinaryOperators == {PLUS, MINUS, ASTERISK, SLASH, LT, GT, EQ, NE}

\* The texts parsed: every `a op1 b op2 c`, a prefix operator or a call
\* beside every binary operator, let statements that fail at each of their
\* expectPeek calls, and programs of each statement and expression form.
ParseInputs ==
    {"a " \o op1 \o " b " \o op2 \o " c" : op1 \in BinaryOperators, op2 \in BinaryOperators}
    \cup {"-a " \o op \o " b" : op \in BinaryOperators}
    \cup {"!a " \o op \o " b" : op \in BinaryOperators}
    \cup {"a " \o op \o " f(b)" : op \in BinaryOperators}
    \cup {"a " \o op \o " -b" : op \in BinaryOperators}
    \cup {"let = 5;", "let x 5;", "let = 5; y", "let x 5; let z = 2;", "let 7 = 5; a + b",
          "let x = ; 1", "let", "let x", "let x =", "let f = fn(a) { a }; f(1)",
          "let x = 5;", "let x = 5; let y = x; y", "return 1;", "return a + b; c",
          "return", "1", "a", "a; b", "1; 2", "true", "!false", "-a", "a + b", "a + b; c",
          "(a + b) * c", "a * (b + c)", "if (x) { y }", "if (x) { y } else { z }",
          "if (a < b) { return a; } else { return b; }", "if x { y }", "if (x { y }",
          "if (x) y", "if (x) { y } else z", "fn(x) { x }", "fn() { 1 }", "fn(x, y) { x + y; }",
          "fn(a { a }", "fn x", "fn(x) x", "f()", "f(a)", "f(a, b + c)", "f(a", "f(a)(b)",
          "add(1, 2 * 3, 4 + 5)", "fn(x) { x }(1)", "{", "{a}", "}", "@", "08", "010",
          "1 +", "+ 1", "(a", ")", "a b", "-", "a == b != c", ";", "a;;b", "", "   ",
          "fn(x) { x", "if (x) { y", "if (x) { y } else { z", "fn(a, b", "fn(a,", "f(a,",
          "f(a, b", "{a", "{a, ", "fn(x) { if (y) { f(", "{ {"}

InitParse ==
    /\ \E src \in ParseInputs :
         /\ parser = ParseNew(src)
         /\ parseOut = [phase |-> "parsing", src |-> src, Statements |-> <<>>, steps |-> <<>>]
    /\ IdleEval
    /\ IdleOps
    /\ IdleEnv
    /\ IdleLex
    /\ IdleCompile
    /\ IdleVM
    /\ IdleSym
    /\ IdleCode

\* One turn of the loop of ParseProgram.  steps records, for the turn, the
\* parser and the statements it started from, the statement parseStatement
\* returned and the parser it left.
ParseProgramStep ==
    /\ parseOut.phase = "parsing"
    /\ ~curTokenIs(parser, EOF)
    /\ parser' = programTurn(parser)
    /\ parseOut' =
         [parseOut EXCEPT
            !.Statements = appendStatement(@, parseStatement(parser).node),
            !.steps = Append(@, [from |-> parser,
                                 before |-> parseOut.Statements,
                                 stmt |-> parseStatement(parser).node,
                                 left |-> parseStatement(parser).p])]
    /\ UNCHANGED exceptParse

\* ParseProgram returns.
ParseProgramEnd ==
    /\ parseOut.phase = "parsing"
    /\ curTokenIs(parser, EOF)
    /\ parseOut' = [parseOut EXCEPT !.phase = "parsed"]
    /\ UNCHANGED <<parser, exceptParse>>

\* program.String() of a program parsed without errors, and the print parsed.
PrintAndParseAgain ==
    /\ parseOut.phase = "parsed"
    /\ parser.errors = <<>>
    /\ parseOut' =
         [phase |-> "printed", src |-> parseOut.src, Statements |-> parseOut.Statements,
          steps |-> parseOut.steps,
          print |-> ProgramString(parseOut.Statements),
          again |-> ParseProgram(ParseNew(ProgramString(parseOut.Statements)))]
    /\ UNCHANGED <<parser, exceptParse>>

NextParse == ParseProgramStep \/ ParseProgramEnd \/ PrintAndParseAgain

SpecParse == InitParse /\ [][NextParse]_vars

\* ParseProgram is a loop of one goroutine: a turn that can be taken is
\* taken.  This is WF_vars(NextParse) with ENABLED <<NextParse>>_vars
\* written out: a step is possible while ParseProgram has not returned, and
\* for the print of a program parsed without errors.
NextParseEnabled ==
    \/ parseOut.phase = "parsing"
    \/ parseOut.phase = "parsed" /\ parser.errors = <<>>

SpecParseLive == SpecParse /\ ([]<>(~NextParseEnabled) \/ []<><<NextParse>>_vars)

(***************************************************************************)
(* Bytecode (src/code/code.go): an instruction is its opcode byte and its  *)
(* operands, two-byte operands big-endian.                                 *)
(***************************************************************************)
OpConstant == 0
OpPop == 1
OpAdd == 2
OpSub == 3
OpMul == 4
OpDiv == 5
OpTrue == 6
OpFalse == 7
OpEqual == 8
OpNotEqual == 9
OpGreaterThan == 10
OpMinus == 11
OpBang == 12
OpJump == 13
OpJumpNotTruthy == 14
OpNull == 15
OpGetGlobal == 16
OpSetGlobal == 17
OpArray == 18
OpHash == 19
OpIndex == 20
OpCall == 21
OpReturnValue == 22
OpReturn == 23
OpGetLocal == 24
OpSetLocal == 25
OpGetBuiltin == 26

\* definitions[op].OperandWidths
definitions ==
    [op \in OpConstant..OpGetBuiltin |->
        CASE op \in {OpConstant, OpJump, OpJumpNotTruthy, OpGetGlobal, OpSetGlobal, OpArray,
                     OpHash} -> <<2>>
          [] op \in {OpCall, OpGetLocal, OpSetLocal, OpGetBuiltin} -> <<1>>
          [] OTHER -> <<>>]

\* Variant of PutUint16 that stores the low byte first; C21's formula rules
\* it out.
PutUint16LittleEndian(o) == <<o % 256, (o % 65536) \div 256>>

\* binary.BigEndian.PutUint16 of uint16(o), and byte(o).
PutUint16(o) == <<(o % 65536) \div 256, o % 256>>
PutUint8(o) == <<o % 256>>

\* The operand bytes of Make: operand i in the width of operand i.
RECURSIVE MakeOperands(_, _, _)
MakeOperands(widths, operands, i) ==
    IF i > Len(widths) THEN <<>>
    ELSE (IF i > Len(operands) THEN [k \in 1..widths[i] |-> 0]
          ELSE IF widths[i] = 2 THEN PutUint16(operands[i]) ELSE PutUint8(operands[i]))
         \o MakeOperands(widths, operands, i + 1)

Make(op, operands) ==
    IF op \notin DOMAIN definitions THEN <<>>
    ELSE <<op>> \o MakeOperands(definitions[op], operands, 1)

\* ReadUint16(ins[at:]), at counted from 0.
ReadUint16(ins, at) == ins[at + 1] * 256 + ins[at + 2]

\* ReadUint8(ins[at:]), at counted from 0.
ReadUint8(ins, at) == ins[at + 1]

\* Lookup: the definition of the opcode byte op, or the error.
Lookup(op) ==
    IF op \in DOMAIN definitions THEN [def |-> definitions[op], err |-> ""]
    ELSE [def |-> <<>>, err |-> "opcode undefined"]

\* The loop of ReadOperands over the widths, from operand i on.  Reading
\* past the end of ins is a runtime panic (index out of range).
RECURSIVE readOperandsLoop(_, _, _, _, _)
readOperandsLoop(widths, ins, i, offset, operands) ==
    IF i > Len(widths) THEN [operands |-> operands, offset |-> offset, panic |-> FALSE]
    ELSE IF widths[i] \in {1, 2} /\ offset + widths[i] > Len(ins)
    THEN [operands |-> operands, offset |-> offset, panic |-> TRUE]
    ELSE readOperandsLoop(widths, ins, i + 1, offset + widths[i],
                          Append(operands,
                                 CASE widths[i] = 2 -> ReadUint16(ins, offset)
                                   [] widths[i] = 1 -> ReadUint8(ins, offset)
                                   [] OTHER -> 0))

\* ReadOperands(def, ins), def given by its OperandWidths: the operands and
\* the number of bytes read.
ReadOperands(def, ins) == readOperandsLoop(def, ins, 1, 0, <<>>)

(***************************************************************************)
(* The symbol table (src/compiler/symbol_table.go).                        *)
(***************************************************************************)
GlobalScope == "GLOBAL"

Symbol(name, scope, index) == [Name |-> name, Scope |-> scope, Index |-> index]

NewSymbolTable == [store |-> [n \in {} |-> Symbol("", "", 0)], numDefinitions |-> 0]

\* Variant of Define that numbers a symbol by the size of the store; C20's
\* formula rules it out.
DefineByStoreSize(table, name) ==
    [table |-> [store |-> [n \in DOMAIN table.store \cup {name} |->
                           IF n = name
                           THEN Symbol(name, GlobalScope, Cardinality(DOMAIN table.store))
                           ELSE table.store[n]],
             numDefinitions |-> table.numDefinitions + 1],
     symbol |-> Symbol(name, GlobalScope, Cardinality(DOMAIN table.store))]

\* Define: the table after the call and the symbol returned.
Define(table, name) ==
    [table |-> [store |-> [n \in DOMAIN table.store \cup {name} |->
                           IF n = name THEN Symbol(name, GlobalScope, table.numDefinitions)
                           ELSE table.store[n]],
             numDefinitions |-> table.numDefinitions + 1],
     symbol |-> Symbol(name, GlobalScope, table.numDefinitions)]

Resolve(table, name) ==
    IF name \in DOMAIN table.store THEN [symbol |-> table.store[name], ok |-> TRUE]
    ELSE [symbol |-> Symbol("", "", 0), ok |-> FALSE]

(***************************************************************************)
(* The compiler (src/unnamed/part_003).  Compile takes the compiler c and  *)
(* a node and gives [c, err]: the compiler after the call and the error    *)
(* returned, "" for nil.  The nodes are those the evaluator is given: the  *)
(* Name of a let is the Value of its identifier.  No compiled program      *)
(* holds a hash literal.                                                   *)
(***************************************************************************)
EmittedInstruction(op, position) == [Opcode |-> op, Position |-> position]

\* A constant of the pool: an object.Integer or an object.String.
Constant(type, value) == [type |-> type, Value |-> value]

CompilerNew ==
    [instructions |-> <<>>, constants |-> <<>>,
     lastInstruction |-> EmittedInstruction(0, 0),
     previousInstruction |-> EmittedInstruction(0, 0),
     symbolTable |-> NewSymbolTable]

Compiled(c, err) == [c |-> c, err |-> err]

\* addConstant: the compiler after the call; the index returned is the
\* length of the pool before it.
addConstant(c, obj) == [c EXCEPT !.constants = Append(@, obj)]

\* addInstruction: the compiler after the call; the position returned is the
\* length of the instructions before it.
addInstruction(c, ins) == [c EXCEPT !.instructions = @ \o ins]

setLastInstruction(c, op, position) ==
    [c EXCEPT !.previousInstruction = c.lastInstruction,
              !.lastInstruction = EmittedInstruction(op, position)]

\* emit: the compiler after the call; the position returned is the length
\* of the instructions before it.
emit(c, op, operands) ==
    setLastInstruction(addInstruction(c, Make(op, operands)), op, Len(c.instructions))

lastInstructionIsPop(c) == c.lastInstruction.Opcode = OpPop

removeLastPop(c) ==
    [c EXCEPT !.instructions = SubSeq(@, 1, c.lastInstruction.Position),
              !.lastInstruction = c.previousInstruction]

replaceInstruction(c, position, newInstruction) ==
    [c EXCEPT !.instructions =
        [i \in DOMAIN @ |->
            IF i - 1 >= position /\ i - 1 < position + Len(newInstruction)
            THEN newInstruction[i - position] ELSE @[i]]]

\* Variant of changeOperand that leaves the instruction as it was emitted;
\* C23's formula rules it out.
changeOperandNever(c, opPos, operand) == c

changeOperand(c, opPos, operand) ==
    replaceInstruction(c, opPos, Make(c.instructions[opPos + 1], <<operand>>))

\* if c.lastInstructionIsPop() { c.removeLastPop() }
dropLastPop(c) == IF lastInstructionIsPop(c) THEN removeLastPop(c) ELSE c

RECURSIVE Compile(_, _)

\* for _, s := range nodes { err := c.Compile(s); if err != nil { return err } }
RECURSIVE compileAll(_, _, _)
compileAllNext(r, nodes, i) == IF r.err # "" THEN r ELSE compileAll(r.c, nodes, i + 1)
compileAll(c, nodes, i) ==
    IF i > Len(nodes) THEN Compiled(c, "") ELSE compileAllNext(Compile(c, nodes[i]), nodes, i)

compileExpressionPop(r) == IF r.err # "" THEN r ELSE Compiled(emit(r.c, OpPop, <<>>), "")

compilePrefixEmit(r, operator) ==
    IF r.err # "" THEN r
    ELSE IF operator = "-" THEN Compiled(emit(r.c, OpMinus, <<>>), "")
    ELSE IF operator = "!" THEN Compiled(emit(r.c, OpBang, <<>>), "")
    ELSE r

compileInfixEmit(r, operator) ==
    IF r.err # "" THEN r
    ELSE CASE operator = "+" -> Compiled(emit(r.c, OpAdd, <<>>), "")
           [] operator = "-" -> Compiled(emit(r.c, OpSub, <<>>), "")
           [] operator = "*" -> Compiled(emit(r.c, OpMul, <<>>), "")
           [] operator = "/" -> Compiled(emit(r.c, OpDiv, <<>>), "")
           [] operator \in {">", "<"} -> Compiled(emit(r.c, OpGreaterThan, <<>>), "")
           [] operator = "==" -> Compiled(emit(r.c, OpEqual, <<>>), "")
           [] operator = "!=" -> Compiled(emit(r.c, OpNotEqual, <<>>), "")
           [] OTHER -> Compiled(r.c, "unknown operator " \o operator)
compileInfixSecond(r, second, operator) ==
    IF r.err # "" THEN r ELSE compileInfixEmit(Compile(r.c, second), operator)
\* Variant of the InfixExpression case that compiles the right operand
\* first for every operator; C22's formula rules it out.
compileInfixRightFirst(c, node) ==
    compileInfixSecond(Compile(c, node.Right), node.Left, node.Operator)

\* `<` compiles the right operand first, every other operator the left one.
compileInfix(c, node) ==
    IF node.Operator = "<"
    THEN compileInfixSecond(Compile(c, node.Right), node.Left, node.Operator)
    ELSE compileInfixSecond(Compile(c, node.Left), node.Right, node.Operator)

\* The patch of the OpJump at opJumpPos, which ends the if.
compileIfPatch(c, opJumpPos) ==
    Compiled(changeOperand(c, opJumpPos, Len(c.instructions)), "")
compileIfAlternativeThen(r, opJumpPos) ==
    IF r.err # "" THEN r ELSE compileIfPatch(dropLastPop(r.c), opJumpPos)
\* c holds the OpJump at opJumpPos as its last instruction.
compileIfAlternative(c, opJumpPos, jumpNotTruthyPos, node) ==
    IF node.Alternative = NoNode
    THEN compileIfPatch(
             emit(changeOperand(c, jumpNotTruthyPos, Len(c.instructions)), OpNull, <<>>),
             opJumpPos)
    ELSE compileIfAlternativeThen(
             Compile(changeOperand(c, jumpNotTruthyPos, Len(c.instructions)),
                     node.Alternative),
             opJumpPos)
\* c is the compiler after the consequence, its last OpPop dropped.
compileIfJump(c, jumpNotTruthyPos, node) ==
    compileIfAlternative(emit(c, OpJump, <<9999>>), Len(c.instructions), jumpNotTruthyPos,
                         node)
compileIfConsequence(r, jumpNotTruthyPos, node) ==
    IF r.err # "" THEN r ELSE compileIfJump(dropLastPop(r.c), jumpNotTruthyPos, node)
compileIfCondition(r, node) ==
    IF r.err # "" THEN r
    ELSE compileIfConsequence(
             Compile(emit(r.c, OpJumpNotTruthy, <<9999>>), node.Consequence),
             Len(r.c.instructions), node)

compileArrayEmit(r, n) == IF r.err # "" THEN r ELSE Compiled(emit(r.c, OpArray, <<n>>), "")

compileIdentifier(c, node) ==
    IF ~Resolve(c.symbolTable, node.Value).ok
    THEN Compiled(c, "undefined variable " \o node.Value)
    ELSE Compiled(emit(c, OpGetGlobal, <<Resolve(c.symbolTable, node.Value).symbol.Index>>), "")

compileLetDefine(r, name) ==
    IF r.err # "" THEN r
    ELSE Compiled(emit([r.c EXCEPT !.symbolTable = Define(@, name).table], OpSetGlobal,
                       <<Define(r.c.symbolTable, name).symbol.Index>>), "")

Compile(c, node) ==
    CASE node.kind = "ExpressionStatement" -> compileExpressionPop(Compile(c, node.Expression))
      [] node.kind = "PrefixExpression" -> compilePrefixEmit(Compile(c, node.Right), node.Operator)
      [] node.kind = "InfixExpression" -> compileInfix(c, node)
      [] node.kind = "IfExpression" -> compileIfCondition(Compile(c, node.Condition), node)
      [] node.kind = "Boolean" ->
           Compiled(emit(c, IF node.Value THEN OpTrue ELSE OpFalse, <<>>), "")
      [] node.kind \in {"IntegerLiteral", "StringLiteral"} ->
           Compiled(emit(addConstant(c, Constant(IF node.kind = "IntegerLiteral"
                                                 THEN INTEGER_OBJ ELSE STRING_OBJ,
                                                 node.Value)),
                         OpConstant, <<Len(c.constants)>>), "")
      [] node.kind = "ArrayLiteral" ->
           compileArrayEmit(compileAll(c, node.Elements, 1), Len(node.Elements))
      [] node.kind = "Identifier" -> compileIdentifier(c, node)
      [] node.kind = "BlockStatement" -> compileAll(c, node.Statements, 1)
      [] node.kind = "LetStatement" -> compileLetDefine(Compile(c, node.Value), node.Name)
      [] OTHER -> Compiled(c, "")

\* Compile(program): the statements in turn, up to the first error.
CompileProgram(c, statements) == compileAll(c, statements, 1)

Bytecode(c) == [Instructions |-> c.instructions, Constants |-> c.constants]

(***************************************************************************)
(* SpecCompile: a new compiler given the statements of a program one after *)
(* the other, as Compile does for an *ast.Program, and then the emitted    *)
(* instructions walked with the stack effects of the opcode table, both    *)
(* ways at every OpJumpNotTruthy.                                          *)
(***************************************************************************)
\* How many values an instruction takes off the stack and how many it puts
\* on it, by the opcode table of the bytecode format.
Pops(op, operand) ==
    CASE op \in {OpAdd, OpSub, OpMul, OpDiv, OpEqual, OpNotEqual, OpGreaterThan, OpIndex} -> 2
      [] op \in {OpPop, OpMinus, OpBang, OpJumpNotTruthy, OpSetGlobal} -> 1
      [] op \in {OpArray, OpHash} -> operand
      [] OTHER -> 0
Pushes(op) ==
    CASE op \in {OpPop, OpJump, OpJumpNotTruthy, OpSetGlobal} -> 0
      [] OTHER -> 1

\* The operand of the instruction at ip (0 when it has none), and the ip of
\* the instruction after it.
OperandAt(ins, ip) == IF definitions[ins[ip + 1]] = <<2>> THEN ReadUint16(ins, ip + 1) ELSE 0
NextIp(ins, ip) == ip + 1 + (IF definitions[ins[ip + 1]] = <<>> THEN 0 ELSE definitions[ins[ip + 1]][1])

CompileCorpus ==
    LET I(v) == IntegerLiteral(v)
        V(n) == Identifier(n)
        Inf(l, op, r) == InfixExpression(l, op, r)
        ES(e) == ExpressionStatement(e)
        Let(n, v) == LetStatement(n, v)
        Blk(stmts) == BlockStatement(stmts)
        If(c, cons) == IfExpression(c, Blk(cons), NoNode)
        IfElse(c, cons, alt) == IfExpression(c, Blk(cons), Blk(alt))
    IN  <<Prog("1", <<ES(I(1))>>),
          Prog("1; 2", <<ES(I(1)), ES(I(2))>>),
          Prog("1 + 2", <<ES(Inf(I(1), "+", I(2)))>>),
          Prog("1 < 2", <<ES(Inf(I(1), "<", I(2)))>>),
          Prog("1 > 2 == true", <<ES(Inf(Inf(I(1), ">", I(2)), "==", BooleanLit(TRUE)))>>),
          Prog("-1; !true", <<ES(PrefixExpression("-", I(1))),
                              ES(PrefixExpression("!", BooleanLit(TRUE)))>>),
          Prog("\"a\" + \"b\"", <<ES(Inf(StringLiteral("a"), "+", StringLiteral("b")))>>),
          Prog("[1, 2 * 3]", <<ES(ArrayLiteral(<<I(1), Inf(I(2), "*", I(3))>>))>>),
          Prog("[]", <<ES(ArrayLiteral(<<>>))>>),
          Prog("let a = 1; a", <<Let("a", I(1)), ES(V("a"))>>),
          Prog("let a = 1; let b = a + a; b / a",
               <<Let("a", I(1)), Let("b", Inf(V("a"), "+", V("a"))),
                 ES(Inf(V("b"), "/", V("a")))>>),
          Prog("let a = 1; let a = 2; a", <<Let("a", I(1)), Let("a", I(2)), ES(V("a"))>>),
          Prog("b", <<ES(V("b"))>>),
          Prog("1; b; 2", <<ES(I(1)), ES(V("b")), ES(I(2))>>),
          Prog("1 & 2", <<ES(Inf(I(1), "&", I(2)))>>),
          Prog("if (true) { 10 }", <<ES(If(BooleanLit(TRUE), <<ES(I(10))>>))>>),
          Prog("if (true) { 10 }; 3", <<ES(If(BooleanLit(TRUE), <<ES(I(10))>>)), ES(I(3))>>),
          Prog("if (true) { 10 } else { 20 }; 3",
               <<ES(IfElse(BooleanLit(TRUE), <<ES(I(10))>>, <<ES(I(20))>>)), ES(I(3))>>),
          Prog("if (1 < 2) { 1; 2 } else { 3; 4 }",
               <<ES(IfElse(Inf(I(1), "<", I(2)), <<ES(I(1)), ES(I(2))>>,
                           <<ES(I(3)), ES(I(4))>>))>>),
          Prog("let a = if (true) { 1 } else { 2 }; a",
               <<Let("a", IfElse(BooleanLit(TRUE), <<ES(I(1))>>, <<ES(I(2))>>)), ES(V("a"))>>),
          Prog("if (true) { if (false) { 1 } }",
               <<ES(If(BooleanLit(TRUE), <<ES(If(BooleanLit(FALSE), <<ES(I(1))>>))>>))>>),
          Prog("if (true) { 1; if (false) { 2 } else { 3 } } else { 4 }; 5",
               <<ES(IfElse(BooleanLit(TRUE),
                           <<ES(I(1)), ES(IfElse(BooleanLit(FALSE), <<ES(I(2))>>, <<ES(I(3))>>))>>,
                           <<ES(I(4))>>)),
                 ES(I(5))>>),
          Prog("1 + if (true) { 2 }", <<ES(Inf(I(1), "+", If(BooleanLit(TRUE), <<ES(I(2))>>)))>>),
          Prog("if (true) { }", <<ES(If(BooleanLit(TRUE), <<>>))>>),
          Prog("if (true) { 1 } else { }", <<ES(IfElse(BooleanLit(TRUE), <<ES(I(1))>>, <<>>))>>),
          Prog("if (true) { let a = 1; }", <<ES(If(BooleanLit(TRUE), <<Let("a", I(1))>>))>>),
          Prog("let a = 1; if (a > 0) { let b = a; b } else { a }",
               <<Let("a", I(1)),
                 ES(IfElse(Inf(V("a"), ">", I(0)), <<Let("b", V("a")), ES(V("b"))>>,
                           <<ES(V("a"))>>))>>)>>

\* The integer literals of the generated sums `a + b`.
SumLiterals == {0, 1, 2, MaxInt}

\* The program that is the single expression statement `a + b`.
SumProgram(a, b) ==
    Prog("a + b", <<ExpressionStatement(InfixExpression(IntegerLiteral(a), "+",
                                                        IntegerLiteral(b)))>>)

InitCompile ==
    /\ compiler = CompilerNew
    /\ \/ \E i \in 1..Len(CompileCorpus) :
             compileJob = [phase |-> "compiling", program |-> CompileCorpus[i], next |-> 1,
                           steps |-> <<>>, err |-> ""]
       \/ \E a \in SumLiterals, b \in SumLiterals :
             compileJob = [phase |-> "compiling", program |-> SumProgram(a, b), next |-> 1,
                           steps |-> <<>>, err |-> ""]
    /\ walk = [phase |-> "idle"]
    /\ IdleEval
    /\ IdleOps
    /\ IdleEnv
    /\ IdleLex
    /\ IdleParse
    /\ IdleVM
    /\ IdleSym
    /\ IdleCode

\* One turn of the loop over the statements of the program: err :=
\* c.Compile(s), and the return of the error if there is one.  steps
\* records the compiler before and after the statement.
CompileStatement ==
    /\ compileJob.phase = "compiling"
    /\ compileJob.next <= Len(compileJob.program.Statements)
    /\ compiler' = Compile(compiler, compileJob.program.Statements[compileJob.next]).c
    /\ compileJob' =
         [compileJob EXCEPT
            !.next = @ + 1,
            !.steps = Append(@, [before |-> compiler, after |-> compiler']),
            !.err = Compile(compiler, compileJob.program.Statements[compileJob.next]).err,
            !.phase = IF Compile(compiler,
                                 compileJob.program.Statements[compileJob.next]).err # ""
                      THEN "failed" ELSE "compiling"]
    /\ UNCHANGED <<walk, exceptCompile>>

\* Compile returns nil; the walk of the bytecode starts on an empty stack.
\* low is the least depth met, also inside an instruction.
CompileEnd ==
    /\ compileJob.phase = "compiling"
    /\ compileJob.next > Len(compileJob.program.Statements)
    /\ compileJob' = [compileJob EXCEPT !.phase = "compiled"]
    /\ walk' = [phase |-> "walking", ip |-> 0, depth |-> 0, low |-> 0, atBounds |-> <<>>]
    /\ UNCHANGED <<compiler, exceptCompile>>

\* The depth with which the walk stands at the end of a statement's code.
AtBounds(w, ip) ==
    IF \E k \in 1..Len(compileJob.steps) : Len(compileJob.steps[k].after.instructions) = ip
    THEN Append(w.atBounds, w.depth) ELSE w.atBounds

\* The walk passes the instruction at walk.ip to the instruction at `to`.
WalkTo(to) ==
    walk' = [phase |-> "walking", ip |-> to,
             depth |-> walk.depth
                       - Pops(compiler.instructions[walk.ip + 1],
                              OperandAt(compiler.instructions, walk.ip))
                       + Pushes(compiler.instructions[walk.ip + 1]),
             low |-> IF walk.depth - Pops(compiler.instructions[walk.ip + 1],
                                          OperandAt(compiler.instructions, walk.ip)) < walk.low
                     THEN walk.depth - Pops(compiler.instructions[walk.ip + 1],
                                            OperandAt(compiler.instructions, walk.ip))
                     ELSE walk.low,
             atBounds |-> AtBounds(walk, walk.ip)]

\* An instruction that does not jump.
WalkOn ==
    /\ walk.phase = "walking"
    /\ walk.ip < Len(compiler.instructions)
    /\ compiler.instructions[walk.ip + 1] # OpJump
    /\ WalkTo(NextIp(compiler.instructions, walk.ip))
    /\ UNCHANGED <<compiler, compileJob, exceptCompile>>

\* OpJump, and OpJumpNotTruthy when the condition is not truthy.
WalkJump ==
    /\ walk.phase = "walking"
    /\ walk.ip < Len(compiler.instructions)
    /\ compiler.instructions[walk.ip + 1] \in {OpJump, OpJumpNotTruthy}
    /\ WalkTo(OperandAt(compiler.instructions, walk.ip))
    /\ UNCHANGED <<compiler, compileJob, exceptCompile>>

\* The walk arrives at the end of the instructions.
WalkEnd ==
    /\ walk.phase = "walking"
    /\ walk.ip >= Len(compiler.instructions)
    /\ walk' = [walk EXCEPT !.phase = "walked", !.atBounds = AtBounds(walk, walk.ip)]
    /\ UNCHANGED <<compiler, compileJob, exceptCompile>>

NextCompile == CompileStatement \/ CompileEnd \/ WalkOn \/ WalkJump \/ WalkEnd

SpecCompile == InitCompile /\ [][NextCompile]_vars

(***************************************************************************)
(* The virtual machine (src/vm/vm.go).  stack holds the slots written so   *)
(* far, slot 0 first; the slots above them are the nil ones New made.      *)
(***************************************************************************)
StackSize == 2048

VMNew(bytecode) ==
    [instructions |-> bytecode.Instructions, constants |-> bytecode.Constants,
     stack |-> <<>>, sp |-> 0]

StackTop(vm) == IF vm.sp = 0 THEN Nil ELSE vm.stack[vm.sp]

\* vm.stack[vm.sp] = o; vm.sp++
storeAtSp(vm, o) ==
    [vm EXCEPT !.stack = IF vm.sp < Len(@) THEN [@ EXCEPT ![vm.sp + 1] = o] ELSE Append(@, o),
               !.sp = @ + 1]

\* Variant of push without the test of vm.sp against StackSize; C18's
\* formula rules it out.
pushUnguarded(vm, o) == [vm |-> storeAtSp(vm, o), err |-> ""]

\* push: the machine after the call and the error returned, "" for nil.
push(vm, o) ==
    IF vm.sp >= StackSize THEN [vm |-> vm, err |-> "stack overflow"]
    ELSE [vm |-> storeAtSp(vm, o), err |-> ""]

\* pop: the machine after the call and the object returned.
pop(vm) ==
    IF vm.sp = 0 THEN [vm |-> vm, o |-> Nil]
    ELSE [vm |-> [vm EXCEPT !.sp = @ - 1], o |-> vm.stack[vm.sp]]

\* What one turn of the loop of Run gives: the machine, and why Run stops
\* there ("" when it goes on): "error" with the error returned, or "panic".
Turn(vm, stop, err) == [vm |-> vm, stop |-> stop, err |-> err]

\* case code.OpConstant
runConstantPush(p) == IF p.err # "" THEN Turn(p.vm, "error", p.err) ELSE Turn(p.vm, "", "")
runOpConstant(vm, ip) ==
    IF ip + 2 >= Len(vm.instructions) THEN Turn(vm, "panic", "index out of range")
    ELSE IF ReadUint16(vm.instructions, ip + 1) >= Len(vm.constants)
    THEN Turn(vm, "panic", "index out of range")
    ELSE runConstantPush(push(vm, vm.constants[ReadUint16(vm.instructions, ip + 1) + 1]))

\* Variant of runAddOperands that adds without the wrap of int64; C17's
\* formula rules it out.
runAddOperandsUnbounded(right, left) ==
    IF left.o.type # INTEGER_OBJ \/ right.o.type # INTEGER_OBJ
    THEN Turn(left.vm, "panic", "interface conversion")
    ELSE Turn(push(left.vm, Constant(INTEGER_OBJ, left.o.Value + right.o.Value)).vm, "", "")

\* case code.OpAdd, once right and left are popped: the type assertions,
\* the sum and the push, whose error is dropped.
runAddOperands(right, left) ==
    IF left.o.type # INTEGER_OBJ \/ right.o.type # INTEGER_OBJ
    THEN Turn(left.vm, "panic", "interface conversion")
    ELSE Turn(push(left.vm, Constant(INTEGER_OBJ, Wrap(left.o.Value + right.o.Value))).vm,
              "", "")
runAddLeft(right) == runAddOperands(right, pop(right.vm))
runOpAdd(vm) == runAddLeft(pop(vm))

\* The body of the loop of Run for the instruction at ip.
runInstruction(vm, ip) ==
    CASE vm.instructions[ip + 1] = OpConstant -> runOpConstant(vm, ip)
      [] vm.instructions[ip + 1] = OpAdd -> runOpAdd(vm)
      [] OTHER -> Turn(vm, "", "")

\* The ip of the next turn: past the operand of OpConstant, and ip++.
runNextIp(vm, ip) == IF vm.instructions[ip + 1] = OpConstant THEN ip + 3 ELSE ip + 1

(***************************************************************************)
(* SpecVM: a program compiled by a new compiler and run by a new VM, one   *)
(* turn of the loop of Run at a time, beside evalProgram over the same     *)
(* program and a fresh environment; or a VM made over bytecode written by  *)
(* hand.                                                                   *)
(***************************************************************************)
\* The integer literals of the generated programs: 1 and the greatest
\* integer, whose sums wrap.
Literal(i) == IntegerLiteral(IF i = 1 THEN 1 ELSE MaxInt)

\* An expression statement over integer literals and +, by its shape.
SumStatement(shape, a, b, c) ==
    ExpressionStatement(
        CASE shape = 1 -> Literal(a)
          [] shape = 2 -> InfixExpression(Literal(a), "+", Literal(b))
          [] shape = 3 ->
               InfixExpression(InfixExpression(Literal(a), "+", Literal(b)), "+", Literal(c))
          [] shape = 4 ->
               InfixExpression(Literal(a), "+", InfixExpression(Literal(b), "+", Literal(c))))

\* Programs with more in them than integer literals and +.
VMCorpus ==
    LET I(v) == IntegerLiteral(v)
        Inf(l, op, r) == InfixExpression(l, op, r)
        ES(e) == ExpressionStatement(e)
    IN  <<Prog("", <<>>),
          Prog("1 + true", <<ES(Inf(I(1), "+", BooleanLit(TRUE)))>>),
          Prog("true + 1", <<ES(Inf(BooleanLit(TRUE), "+", I(1)))>>),
          Prog("true", <<ES(BooleanLit(TRUE))>>),
          Prog("\"a\" + \"b\"", <<ES(Inf(StringLiteral("a"), "+", StringLiteral("b")))>>),
          Prog("1 + \"b\"", <<ES(Inf(I(1), "+", StringLiteral("b")))>>),
          Prog("1; return 2; 3", <<ES(I(1)), ReturnStatement(I(2)), ES(I(3))>>),
          Prog("1 - 2", <<ES(Inf(I(1), "-", I(2)))>>),
          Prog("let a = 1; a", <<LetStatement("a", I(1)), ES(Identifier("a"))>>),
          Prog("if (true) { 10 }",
               <<ES(IfExpression(BooleanLit(TRUE), BlockStatement(<<ES(I(10))>>), NoNode))>>),
          Prog("if (false) { 1 } else { 2 }; 3",
               <<ES(IfExpression(BooleanLit(FALSE), BlockStatement(<<ES(I(1))>>),
                                 BlockStatement(<<ES(I(2))>>))),
                 ES(I(3))>>)>>

\* Bytecode written by hand: StackSize + 1 times OpConstant 0; StackSize
\* times OpConstant 0, an OpAdd and two more OpConstant 0; an OpAdd on an
\* empty stack and on a stack of one value; an OpConstant without its
\* operand and one whose operand is no index of the pool.
HandBytecode ==
    <<[Instructions |-> [i \in 1..3 * (StackSize + 1) |-> IF i % 3 = 1 THEN OpConstant ELSE 0],
       Constants |-> <<Constant(INTEGER_OBJ, 1)>>],
      [Instructions |-> [i \in 1..3 * StackSize |-> IF i % 3 = 1 THEN OpConstant ELSE 0]
                        \o <<OpAdd, OpConstant, 0, 0, OpConstant, 0, 0>>,
       Constants |-> <<Constant(INTEGER_OBJ, 1)>>],
      [Instructions |-> <<OpAdd>>, Constants |-> <<Constant(INTEGER_OBJ, 1)>>],
      [Instructions |-> <<OpConstant, 0, 0, OpAdd, OpConstant, 0, 0>>,
       Constants |-> <<Constant(INTEGER_OBJ, 1)>>],
      [Instructions |-> <<OpConstant, 0>>, Constants |-> <<Constant(INTEGER_OBJ, 1)>>],
      [Instructions |-> <<OpConstant, 0, 1>>, Constants |-> <<Constant(INTEGER_OBJ, 1)>>]>>

NewRun ==
    [status |-> "running", ip |-> 0, err |-> "",
     last |-> [op |-> OpConstant, ip |-> 0, sp |-> 0, stack |-> <<>>, turns |-> 0]]

\* vm.New(comp.Bytecode()) after comp.Compile(program) returned nil.
VMOfProgram(statements) == VMNew(Bytecode(CompileProgram(CompilerNew, statements).c))

\* One turn of the loop of Run on the VM vm, r being the call (its ip, how
\* it ended, its last turn): the VM and the call after the turn.
runTurn(vm, r) ==
    [vm |-> runInstruction(vm, r.ip).vm,
     run |-> [status |-> IF runInstruction(vm, r.ip).stop = "" THEN "running"
                         ELSE runInstruction(vm, r.ip).stop,
              ip |-> IF runInstruction(vm, r.ip).stop = ""
                     THEN runNextIp(vm, r.ip) ELSE r.ip,
              err |-> runInstruction(vm, r.ip).err,
              last |-> [op |-> vm.instructions[r.ip + 1], ip |-> r.ip,
                        sp |-> vm.sp, stack |-> vm.stack,
                        turns |-> r.last.turns + 1]]]

\* The VM and the call after n more turns of the loop, or fewer when Run
\* ends before: none, one, or the first half of them and then the rest.
RECURSIVE runTurns(_, _, _)
runTurnsNext(t, n) == IF t.run.status = "running" THEN runTurns(t.vm, t.run, n) ELSE t
runTurns(vm, r, n) ==
    IF n = 0 \/ r.ip >= Len(vm.instructions) THEN [vm |-> vm, run |-> r]
    ELSE IF n = 1 THEN runTurn(vm, r)
    ELSE runTurnsNext(runTurns(vm, r, n \div 2), n - n \div 2)

InitVM ==
    /\ \/ /\ \/ \E i \in 1..Len(VMCorpus) : program = VMCorpus[i]
             \/ \E n \in 1..MaxSums :
                   \E shape \in [1..n -> 1..4], a \in [1..n -> 1..2], b \in [1..n -> 1..2],
                      c \in [1..n -> 1..2] :
                      program = Prog("sums", [k \in 1..n |->
                                                 SumStatement(shape[k], a[k], b[k], c[k])])
          /\ CompileProgram(CompilerNew, program.Statements).err = ""
          /\ machine = VMOfProgram(program.Statements)
          /\ pos = 1
          /\ st = NewState
          /\ results = <<>>
          /\ status = "running"
          /\ result = Nil
          /\ run = NewRun
       \/ /\ \E i \in 1..Len(HandBytecode) : machine = VMNew(HandBytecode[i])
          /\ run = NewRun
          /\ IdleEval
       \* The same VM, StackSize - 1 turns into Run over the two long bytecodes.
       \/ /\ \E i \in 1..2 :
                /\ machine = runTurns(VMNew(HandBytecode[i]), NewRun, StackSize - 1).vm
                /\ run = runTurns(VMNew(HandBytecode[i]), NewRun, StackSize - 1).run
          /\ IdleEval
    /\ IdleOps
    /\ IdleEnv
    /\ IdleLex
    /\ IdleParse
    /\ IdleCompile
    /\ IdleSym
    /\ IdleCode

\* One turn of the loop of Run, which is called once evalProgram has
\* returned.  last records the instruction of the turn and the stack it
\* found.
VMRunTurn ==
    /\ status # "running"
    /\ run.status = "running"
    /\ run.ip < Len(machine.instructions)
    /\ machine' = runTurn(machine, run).vm
    /\ run' = runTurn(machine, run).run
    /\ UNCHANGED exceptVM

\* The loop is over: return nil.
VMRunEnd ==
    /\ status # "running"
    /\ run.status = "running"
    /\ run.ip >= Len(machine.instructions)
    /\ run' = [run EXCEPT !.status = "done"]
    /\ UNCHANGED <<machine, exceptVM>>

NextVM == VMRunTurn \/ VMRunEnd \/ ProgramStop \/ ProgramStep \/ ProgramEnd

SpecVM == InitVM /\ [][NextVM]_vars

(***************************************************************************)
(* SpecSym: one SymbolTable, made by NewSymbolTable, on which Define and   *)
(* Resolve are called in any order with names of SymbolNames.  defines     *)
(* keeps the symbols the Define calls returned; resolved keeps the last    *)
(* Resolve call, what it returned and how many Define calls came before.   *)
(***************************************************************************)
SymbolNames == {"a", "b", "c"}

InitSym ==
    /\ symbolTable = NewSymbolTable
    /\ defines = <<>>
    /\ resolved = [phase |-> "idle"]
    /\ IdleEval
    /\ IdleOps
    /\ IdleEnv
    /\ IdleLex
    /\ IdleParse
    /\ IdleCompile
    /\ IdleVM
    /\ IdleCode

SymDefine ==
    /\ Len(defines) < MaxDefines
    /\ \E name \in SymbolNames :
          /\ symbolTable' = Define(symbolTable, name).table
          /\ defines' = Append(defines, Define(symbolTable, name).symbol)
    /\ UNCHANGED resolved
    /\ UNCHANGED exceptSym

SymResolve ==
    /\ \E name \in SymbolNames :
          resolved' = [phase |-> "resolved", name |-> name,
                       symbol |-> Resolve(symbolTable, name).symbol,
                       ok |-> Resolve(symbolTable, name).ok,
                       after |-> Len(defines)]
    /\ UNCHANGED <<symbolTable, defines>>
    /\ UNCHANGED exceptSym

NextSym == SymDefine \/ SymResolve

SpecSym == InitSym /\ [][NextSym]_vars

(***************************************************************************)
(* SpecCode: the instruction format.  Make is called with any defined      *)
(* opcode and operands of OperandValues, and ReadOperands is applied to    *)
(* the bytes after the opcode; Instructions.String runs over one of        *)
(* ListingInputs, one turn of its loop at a time.  listing keeps the       *)
(* cursor i, the count of lines written and the last line.                 *)
(***************************************************************************)
\* Operands that fit in a width of w bytes.
OperandValues(w) ==
    IF w = 2 THEN {0, 1, 255, 256, 258, 4660, 65280, 65534, 65535} ELSE {0, 1, 127, 128, 255}

\* The operand lists that match the operand count of op and fit its widths.
OperandLists(op) ==
    IF definitions[op] = <<>> THEN {<<>>}
    ELSE {<<o>> : o \in OperandValues(definitions[op][1])}

\* The byte sequences listed: bytecode of the compiler, and sequences with
\* a byte that is no opcode, with a cut operand, and the empty one.
ListingInputs ==
    <<Bytecode(CompileProgram(CompilerNew, CompileCorpus[1].Statements).c).Instructions,
      Bytecode(CompileProgram(CompilerNew, CompileCorpus[2].Statements).c).Instructions,
      Bytecode(CompileProgram(CompilerNew, CompileCorpus[3].Statements).c).Instructions,
      Bytecode(CompileProgram(CompilerNew, CompileCorpus[4].Statements).c).Instructions,
      Make(OpConstant, <<65534>>) \o Make(OpCall, <<255>>) \o Make(OpReturn, <<>>),
      Make(OpGetLocal, <<1>>) \o Make(OpJump, <<0>>),
      <<>>,
      <<OpGetBuiltin + 1>>,
      <<255>>,
      Make(OpTrue, <<>>) \o <<200>> \o Make(OpPop, <<>>),
      Make(OpConstant, <<1>>) \o <<OpGetBuiltin + 1, OpAdd>>,
      <<OpConstant, 0>>,
      Make(OpAdd, <<>>) \o <<OpCall>>>>

NewListing(ins) ==
    [phase |-> "running", ins |-> ins, i |-> 0, lines |-> 0, errors |-> 0,
     last |-> [kind |-> "none"]]

InitCode ==
    /\ made = [phase |-> "idle"]
    /\ \E k \in 1..Len(ListingInputs) : listing = NewListing(ListingInputs[k])
    /\ IdleEval
    /\ IdleOps
    /\ IdleEnv
    /\ IdleLex
    /\ IdleParse
    /\ IdleCompile
    /\ IdleVM
    /\ IdleSym

\* Make(op, operands...)
CodeMake ==
    /\ \E op \in DOMAIN definitions : \E operands \in OperandLists(op) :
          made' = [phase |-> "made", op |-> op, operands |-> operands,
                   instruction |-> Make(op, operands)]
    /\ UNCHANGED listing
    /\ UNCHANGED exceptCode

\* ReadOperands(def, instruction[1:]) for the instruction Make returned.
CodeReadOperands ==
    /\ made.phase = "made"
    /\ made' = [phase |-> "read", op |-> made.op, operands |-> made.operands,
                instruction |-> made.instruction,
                read |-> ReadOperands(Lookup(made.op).def, Tail(made.instruction))]
    /\ UNCHANGED listing
    /\ UNCHANGED exceptCode

\* One turn of the loop of Instructions.String: the listing after it.
stringRead(l, r) ==
    IF r.panic THEN [l EXCEPT !.phase = "panic"]
    ELSE [l EXCEPT !.lines = @ + 1,
                   !.last = [kind |-> "instruction", at |-> l.i, op |-> l.ins[l.i + 1],
                             operands |-> r.operands],
                   !.i = @ + 1 + r.offset]

stringTurn(l) ==
    IF Lookup(l.ins[l.i + 1]).err # ""
    THEN [l EXCEPT !.lines = @ + 1, !.errors = @ + 1,
                   !.last = [kind |-> "error", at |-> l.i, op |-> l.ins[l.i + 1]]]
    ELSE stringRead(l, ReadOperands(Lookup(l.ins[l.i + 1]).def,
                                    SubSeq(l.ins, l.i + 2, Len(l.ins))))

StringTurn ==
    /\ listing.phase = "running"
    /\ listing.i < Len(listing.ins)
    /\ listing.errors < MaxErrorLines
    /\ listing' = stringTurn(listing)
    /\ UNCHANGED made
    /\ UNCHANGED exceptCode

\* The loop is over: return out.String().
StringEnd ==
    /\ listing.phase = "running"
    /\ listing.i >= Len(listing.ins)
    /\ listing' = [listing EXCEPT !.phase = "done"]
    /\ UNCHANGED made
    /\ UNCHANGED exceptCode

NextCode == CodeMake \/ CodeReadOperands \/ StringTurn \/ StringEnd

SpecCode == InitCode /\ [][NextCode]_vars

(***************************************************************************)
(* Properties.                                                             *)
(***************************************************************************)
\* An object that ends the loop of evalProgram.
Stops(o) == o.type = RETURN_VALUE_OBJ \/ o.type = ERROR_OBJ

IsInteger(o, v) == o.type = INTEGER_OBJ /\ o.Value = v

\* The program has ended, normally, with the Integer v.
EndsWithInteger(v) == status = "end" /\ IsInteger(result, v)

\* C1: evalProgram evaluates the statements in source order (the k-th
\* evaluation is of statement k); only the last statement evaluated can have
\* given a ReturnValue or an Error, so nothing after it is evaluated; on a
\* ReturnValue the program's result is the wrapped value, on an Error the
\* Error itself; if no statement gives either, every statement is evaluated
\* and the result is the last statement's result (nil for no statements).
C1_ProgramStopsAtFirstReturnOrError ==
    LET n == Len(results)
    IN  /\ n <= Len(program.Statements)
        /\ \A k \in 1..n : results[k].stmt = k
        /\ \A k \in 1..n : Stops(results[k].val) => k = n
        /\ (status = "running") =>
              (n = pos - 1 /\ \A k \in 1..n : ~Stops(results[k].val))
        /\ (status = "return") =>
              (/\ n >= 1
               /\ results[n].val.type = RETURN_VALUE_OBJ
               /\ SameObject(result, results[n].val.Value))
        /\ (status = "error") =>
              (/\ n >= 1
               /\ results[n].val.type = ERROR_OBJ
               /\ SameObject(result, results[n].val)
               /\ result.Message = results[n].val.Message)
        /\ (status = "end") =>
              (/\ n = Len(program.Statements)
               /\ \A k \in 1..n : ~Stops(results[k].val)
               /\ IF n = 0 THEN result.type = "nil" ELSE SameObject(result, results[n].val))

\* A program has returned an Integer from a statement that is not its last.
C1_Witness ==
    /\ status = "return"
    /\ Len(results) < Len(program.Statements)
    /\ result.type = INTEGER_OBJ

\* A statement that is a literal: it yields neither a ReturnValue nor an Error.
PlainStatement(stmt) ==
    /\ stmt.kind = "ExpressionStatement"
    /\ stmt.Expression.kind \in {"IntegerLiteral", "Boolean", "StringLiteral"}

\* C2: in every evaluation of a block whose statements are all literals (so
\* none yields a ReturnValue or an Error), all N statements are evaluated and
\* the block's result is the N-th statement's; `if (true) { 1; 2 }` yields 2.
C2_BlockRunsToItsEnd ==
    /\ \A k \in 1..Len(st.log) :
          LET e == st.log[k]
          IN  (e.ev = "block" /\ \A j \in 1..Len(e.block.Statements) :
                                     PlainStatement(e.block.Statements[j])) =>
                 (/\ Len(e.vals) = Len(e.block.Statements)
                  /\ Len(e.vals) > 0 => SameObject(e.val, e.vals[Len(e.vals)]))
    /\ (program.src = "if (true) { 1; 2 }" /\ status # "running") => EndsWithInteger(2)

ConsequenceTaken(o) == IsInteger(o, 1)

\* C4: for every operand x, `!x` is TRUE if x is FALSE or NULL and FALSE
\* otherwise, and it is TRUE exactly when `if (x)` does not take its
\* consequence.
C4_BangIsTrueIffFalseOrNull ==
    (opDone = "if" /\ opArgs.operator = "!") =>
        LET x == opArgs.left
        IN  /\ IF SameObject(x, FALSE_OBJ) \/ SameObject(x, NULL)
               THEN SameObject(opOut.res, TRUE_OBJ)
               ELSE SameObject(opOut.res, FALSE_OBJ)
            /\ SameObject(opOut.res, TRUE_OBJ) <=> ~ConsequenceTaken(opOut.cond)

\* `!` and `if` have been applied to NULL: `!` gave TRUE, `if` took its alternative.
C4_Witness ==
    /\ opDone = "if"
    /\ opArgs.operator = "!"
    /\ SameObject(opArgs.left, NULL)
    /\ SameObject(opOut.res, TRUE_OBJ)
    /\ IsInteger(opOut.cond, 0)

\* C5: for two Integer operands, + - * give an Integer (the sum, difference
\* and product, wrapped to the integer width), < > == != give the Boolean of
\* the comparison, and / gives an Integer (the truncated quotient) whenever
\* the right operand is not 0.
C5_IntegerInfixSucceeds ==
    (/\ opDone = "infix"
     /\ opArgs.left.type = INTEGER_OBJ
     /\ opArgs.right.type = INTEGER_OBJ) =>
        LET a == opArgs.left.Value
            b == opArgs.right.Value
            op == opArgs.operator
            res == opOut.res
            IsBool(t) == SameObject(res, IF t THEN TRUE_OBJ ELSE FALSE_OBJ)
        IN  /\ res.type # ERROR_OBJ
            /\ (op \in {"+", "-", "*"}) => (res.type = INTEGER_OBJ /\ res.Value \in IntRange)
            /\ (op = "+") => IsInteger(res, Wrap(a + b))
            /\ (op = "-") => IsInteger(res, Wrap(a - b))
            /\ (op = "*") => IsInteger(res, Wrap(a * b))
            /\ (op = "<") => IsBool(a < b)
            /\ (op = ">") => IsBool(a > b)
            /\ (op = "==") => IsBool(a = b)
            /\ (op = "!=") => IsBool(a # b)
            /\ (op = "/" /\ b # 0) => (res.type = INTEGER_OBJ /\ res.Value \in IntRange)
            /\ (op = "/" /\ b # 0 /\ (a # MinInt \/ b # -1)) =>
                  (/\ Abs(res.Value) * Abs(b) <= Abs(a)
                   /\ Abs(a) < (Abs(res.Value) + 1) * Abs(b)
                   /\ (res.Value # 0) => ((res.Value > 0) <=> ((a < 0) <=> (b < 0))))

\* The smallest Integer has been divided by -1: the quotient is an Integer.
C5_Witness ==
    /\ opDone = "infix"
    /\ opArgs.operator = "/"
    /\ IsInteger(opArgs.left, MinInt)
    /\ IsInteger(opArgs.right, -1)
    /\ opOut.res.type = INTEGER_OBJ

\* C6: for operands that are objects (a nil operand has no type to classify),
\* evalInfixExpression decides in this order: both Integer, the integer
\* operator; both String, the concatenation for + and `unknown operator`
\* for any other operator; operator == or !=, the Boolean of the operands
\* being (not being) the same object; types differ, `type mismatch`;
\* otherwise `unknown operator`, each message as `<LTYPE> <OP> <RTYPE>`.
C6_InfixClassification ==
    (/\ opDone = "infix"
     /\ opArgs.left.type # "nil"
     /\ opArgs.right.type # "nil") =>
        LET l == opArgs.left
            r == opArgs.right
            op == opArgs.operator
            res == opOut.res
            Types == l.type \o " " \o op \o " " \o r.type
            IsErr(msg) == res.type = ERROR_OBJ /\ res.Message = msg
            IsBool(t) == SameObject(res, IF t THEN TRUE_OBJ ELSE FALSE_OBJ)
        IN  IF l.type = INTEGER_OBJ /\ r.type = INTEGER_OBJ
            THEN IF op \in {"+", "-", "*"} THEN res.type = INTEGER_OBJ
                 ELSE IF op = "/" THEN (IF r.Value = 0 THEN res.type = "PANIC"
                                        ELSE res.type = INTEGER_OBJ)
                 ELSE res.type = BOOLEAN_OBJ
            ELSE IF l.type = STRING_OBJ /\ r.type = STRING_OBJ
            THEN IF op = "+"
                 THEN res.type = STRING_OBJ /\ res.Value = l.Value \o r.Value
                 ELSE IsErr("unknown operator: " \o Types)
            ELSE IF op = "==" THEN IsBool(SameObject(l, r))
            ELSE IF op = "!=" THEN IsBool(~SameObject(l, r))
            ELSE IF l.type # r.type THEN IsErr("type mismatch: " \o Types)
            ELSE IsErr("unknown operator: " \o Types)

\* Two Strings have been compared with ==: the String case comes before the
\* == case, so the result is `unknown operator`, not a Boolean.
C6_Witness ==
    /\ opDone = "infix"
    /\ opArgs.operator = "=="
    /\ opArgs.left.type = STRING_OBJ
    /\ opArgs.right.type = STRING_OBJ
    /\ opOut.res.type = ERROR_OBJ
    /\ opOut.res.Message = "unknown operator: STRING == STRING"

\* Two environments with the same outer link and the same bindings.
SameEnv(x, y) ==
    /\ x.outer = y.outer
    /\ DOMAIN x.store = DOMAIN y.store
    /\ \A n \in DOMAIN x.store : SameObject(x.store[n], y.store[n])

\* C7: every application of a user function evaluates the body in an
\* environment that did not exist before the call, whose outer link is the
\* environment the function captured and which binds exactly the parameters,
\* each to the argument at its position (the last one, for a repeated name);
\* every environment that existed before the call (the captured one and the
\* caller's among them) has the same bindings on entry to the body and after
\* the call; the newAdder program yields 5, and a free identifier resolves
\* in the captured chain, not in the caller's.
C7_ApplyExtendsCapturedEnvironment ==
    /\ \A k \in 1..Len(st.log) :
          LET e == st.log[k]
          IN  (e.ev = "apply") =>
                 LET params == e.fn.Parameters
                     own == e.heapEntry[e.env]
                 IN  /\ e.env = Len(e.heapBefore) + 1
                     /\ Len(e.heapEntry) = Len(e.heapBefore) + 1
                     /\ own.outer = e.fn.Env
                     /\ e.fn.Env \in 1..Len(e.heapBefore)
                     /\ DOMAIN own.store = {params[i] : i \in 1..Len(params)}
                     /\ \A i \in 1..Len(params) :
                           (\A j \in (i + 1)..Len(params) : params[j] # params[i]) =>
                               SameObject(own.store[params[i]], e.args[i])
                     /\ \A h \in 1..Len(e.heapBefore) :
                           /\ SameEnv(e.heapBefore[h], e.heapEntry[h])
                           /\ SameEnv(e.heapBefore[h], e.heapAfter[h])
    /\ (/\ program.src = "let newAdder = fn(x) { fn(y) { x + y } }; let addTwo = newAdder(2); addTwo(3);"
        /\ status # "running") => EndsWithInteger(5)
    /\ (/\ program.src = "let a = 1; let f = fn() { a }; let g = fn() { let a = 2; f() }; g()"
        /\ status # "running") => EndsWithInteger(1)

\* The newAdder program has yielded 5, having applied a function whose
\* captured environment is not the root (the closure made by newAdder(2)).
C7_Witness ==
    /\ program.src = "let newAdder = fn(x) { fn(y) { x + y } }; let addTwo = newAdder(2); addTwo(3);"
    /\ EndsWithInteger(5)
    /\ \E k \in 1..Len(st.log) :
          /\ st.log[k].ev = "apply"
          /\ st.log[k].fn.Env # 1
          /\ st.log[k].fn.Parameters = <<"y">>

\* C8: no application of a user function yields a ReturnValue, and the
\* statements after a call whose callee executed `return` are evaluated:
\* the programs below yield 2.
C8_ApplyNeverYieldsReturnValue ==
    /\ \A k \in 1..Len(st.log) :
          (st.log[k].ev = "apply") => st.log[k].val.type # RETURN_VALUE_OBJ
    /\ (/\ program.src = "let f = fn() { return 1; }; f(); 2"
        /\ status # "running") => EndsWithInteger(2)
    /\ (/\ program.src = "let f = fn() { return if (true) { return 1; } }; f(); 2"
        /\ status # "running") => EndsWithInteger(2)

\* C9: in every call the callee is evaluated first and then the arguments
\* from the first on, in order; if the callee gives an Error no argument is
\* evaluated; an argument that gives an Error is the last one evaluated;
\* in both cases the function is not applied and the call's value is that
\* very Error; a function is applied only after all the arguments have been
\* evaluated without an Error.
C9_CallStopsAtFirstError ==
    \A k \in 1..Len(st.log) :
        LET e == st.log[k]
        IN  (e.ev = "call") =>
               /\ Len(e.steps) = 1 + Len(e.argVals)
               /\ \A i \in 1..Len(e.steps) : e.steps[i] = i - 1
               /\ Len(e.argVals) <= Len(e.node.Arguments)
               /\ isError(e.fn) =>
                     (Len(e.argVals) = 0 /\ ~e.applied /\ SameObject(e.val, e.fn))
               /\ \A j \in 1..Len(e.argVals) :
                     isError(e.argVals[j]) =>
                        (/\ j = Len(e.argVals)
                         /\ ~e.applied
                         /\ SameObject(e.val, e.argVals[j]))
               /\ e.applied =>
                     (/\ ~isError(e.fn)
                      /\ Len(e.argVals) = Len(e.node.Arguments)
                      /\ \A j \in 1..Len(e.argVals) : ~isError(e.argVals[j]))

\* A call with three arguments whose second argument gave an Error: the
\* third was not evaluated, the function was not applied, the call gave the Error.
C9_Witness ==
    \E k \in 1..Len(st.log) :
        /\ st.log[k].ev = "call"
        /\ Len(st.log[k].node.Arguments) = 3
        /\ st.log[k].steps = <<0, 1, 2>>
        /\ st.log[k].fn.type = FUNCTION_OBJ
        /\ ~st.log[k].applied
        /\ st.log[k].val.type = ERROR_OBJ

\* The environments from e outward: e, its outer, the outer of that, ...
RECURSIVE Chain(_, _)
Chain(heap, e) == IF e = 0 THEN <<>> ELSE <<e>> \o Chain(heap, heap[e].outer)

\* The positions on e's chain whose environment binds name.
Binders(heap, e, name) ==
    {i \in 1..Len(Chain(heap, e)) : name \in DOMAIN heap[Chain(heap, e)[i]].store}

Innermost(heap, e, name) ==
    Chain(heap, e)[CHOOSE i \in Binders(heap, e, name) :
                       \A j \in Binders(heap, e, name) : i <= j]

\* C10: Get(name) on an environment reports found exactly when some
\* environment on its outer chain binds name, and then returns the binding
\* of the first such environment on the chain (nil when there is none);
\* Set(name, v) binds name to v in the environment it is called on and
\* leaves every other environment, the outer ones among them, as it was.
C10_GetInnermostSetOwnStore ==
    /\ (envOp.op = "get") =>
          (/\ envOp.ok <=> (Binders(envs, envOp.env, envOp.name) # {})
           /\ IF Binders(envs, envOp.env, envOp.name) # {}
              THEN SameObject(envOp.obj,
                       envs[Innermost(envs, envOp.env, envOp.name)].store[envOp.name])
              ELSE envOp.obj.type = "nil")
    /\ (envOp.op = "set") =>
          (/\ Len(envs) = Len(envOp.before)
           /\ envOp.name \in DOMAIN envs[envOp.env].store
           /\ SameObject(envs[envOp.env].store[envOp.name], envOp.val)
           /\ envs[envOp.env].outer = envOp.before[envOp.env].outer
           /\ \A n \in DOMAIN envOp.before[envOp.env].store \ {envOp.name} :
                 /\ n \in DOMAIN envs[envOp.env].store
                 /\ SameObject(envs[envOp.env].store[n], envOp.before[envOp.env].store[n])
           /\ \A h \in 1..Len(envs) :
                 (h # envOp.env) => SameEnv(envs[h], envOp.before[h]))

\* Get on an environment that does not bind the name, whose outer binds it to
\* one Integer and whose outer's outer binds it to the other: Get returned
\* the nearer binding.
C10_Witness ==
    /\ envOp.op = "get"
    /\ envOp.ok
    /\ Len(Chain(envs, envOp.env)) = 3
    /\ Binders(envs, envOp.env, envOp.name) = {2, 3}
    /\ LET c == Chain(envs, envOp.env)
       IN  /\ ~SameObject(envs[c[2]].store[envOp.name], envs[c[3]].store[envOp.name])
           /\ SameObject(envOp.obj, envs[c[2]].store[envOp.name])

\* C11: once NextToken has returned an EOF token, every later call on the
\* same lexer returns an EOF token with the empty literal.
C11_EofForever ==
    \A i, j \in 1..Len(tokens) :
        (i < j /\ tokens[i].tok.Type = EOF) =>
            (tokens[j].tok.Type = EOF /\ tokens[j].tok.Literal = "")

\* The bytes of the input at the 0-based positions from..to-1.
BytesAt(input, from, to) == {input[p] : p \in (from + 1)..to}

NameNode(n) == identifierOf(Token(IDENT, n))
BinaryNode(l, op, r) == WithToken(Token(op, op), InfixExpression(l, op, r))
PrefixNode(op, r) == WithToken(Token(op, op), PrefixExpression(op, r))
CallNode(f, args) == WithToken(Token(LPAREN, LPAREN), CallExpression(f, args))

\* The rank of a binary operator on the ladder EQUALS < LESSGREATER < SUM <
\* PRODUCT.
LadderRank(op) ==
    CASE op \in {"==", "!="} -> 1
      [] op \in {"<", ">"} -> 2
      [] op \in {"+", "-"} -> 3
      [] op \in {"*", "/"} -> 4

ParseEnded == parseOut.phase \in {"parsed", "printed"}

\* C13: the precedence levels rise EQUALS < LESSGREATER < SUM < PRODUCT <
\* PREFIX < CALL < INDEX, and for all binary operators op1 and op2 the text
\* `a op1 b op2 c` parses without errors to the one statement
\* ((a op1 b) op2 c) when op2 ranks no higher than op1 and (a op1 (b op2 c))
\* when it ranks higher; a prefix operator and a call bind tighter than every
\* binary operator: `-a op b` is ((-a) op b) and `a op f(b)` is (a op f(b)).
C13_PrecedenceClimbing ==
    /\ LOWEST < EQUALS /\ EQUALS < LESSGREATER /\ LESSGREATER < SUM /\ SUM < PRODUCT
    /\ PRODUCT < PREFIX /\ PREFIX < CALL /\ CALL < INDEX
    /\ ParseEnded =>
         \A op1 \in BinaryOperators :
            /\ \A op2 \in BinaryOperators :
                  parseOut.src = "a " \o op1 \o " b " \o op2 \o " c" =>
                     /\ parser.errors = <<>>
                     /\ parseOut.Statements =
                          <<WithToken(Token(IDENT, "a"), ExpressionStatement(
                              IF LadderRank(op2) <= LadderRank(op1)
                              THEN BinaryNode(BinaryNode(NameNode("a"), op1, NameNode("b")),
                                              op2, NameNode("c"))
                              ELSE BinaryNode(NameNode("a"), op1,
                                              BinaryNode(NameNode("b"), op2, NameNode("c")))))>>
            /\ parseOut.src = "-a " \o op1 \o " b" =>
                  /\ parser.errors = <<>>
                  /\ parseOut.Statements =
                       <<WithToken(Token(MINUS, "-"), ExpressionStatement(
                           BinaryNode(PrefixNode("-", NameNode("a")), op1, NameNode("b"))))>>
            /\ parseOut.src = "a " \o op1 \o " f(b)" =>
                  /\ parser.errors = <<>>
                  /\ parseOut.Statements =
                       <<WithToken(Token(IDENT, "a"), ExpressionStatement(
                           BinaryNode(NameNode("a"), op1,
                                      CallNode(NameNode("f"), <<NameNode("b")>>))))>>

\* `a + b * c` has been parsed, to a sum whose right operand is the product.
C13_Witness ==
    /\ parseOut.phase = "parsed"
    /\ parseOut.src = "a + b * c"
    /\ Len(parseOut.Statements) = 1
    /\ parseOut.Statements[1].Expression.Operator = "+"
    /\ parseOut.Statements[1].Expression.Right.kind = "InfixExpression"
    /\ parseOut.Statements[1].Expression.Right.Operator = "*"

\* A turn of ParseProgram that starts at a let whose expectPeek for the name
\* or for the `=` fails.
FailedLet(p) ==
    /\ curTokenIs(p, LET_TOKEN)
    /\ ~peekTokenIs(p, IDENT) \/ ~peekTokenIs(nextToken(p), ASSIGN)

\* The statements of the program once turn k of ParseProgram is over.
StatementsAfter(k) ==
    IF k < Len(parseOut.steps) THEN parseOut.steps[k + 1].before ELSE parseOut.Statements

\* C14: a let statement whose expectPeek fails appends the error `expected
\* next token to be <X>, but got <Y> instead`, adds no element to
\* Program.Statements, and leaves the parser on the token the check failed
\* before, so that parsing goes on with the tokens that follow.
C14_FailedLetIsSkipped ==
    parseOut.phase # "idle" =>
       \A k \in 1..Len(parseOut.steps) :
          FailedLet(parseOut.steps[k].from) =>
             /\ parseOut.steps[k].left.errors =
                  Append(parseOut.steps[k].from.errors,
                         IF ~peekTokenIs(parseOut.steps[k].from, IDENT)
                         THEN "expected next token to be IDENT, but got "
                              \o parseOut.steps[k].from.peekToken.Type \o " instead"
                         ELSE "expected next token to be =, but got "
                              \o nextToken(parseOut.steps[k].from).peekToken.Type \o " instead")
             /\ parseOut.steps[k].left.peekToken =
                  IF ~peekTokenIs(parseOut.steps[k].from, IDENT)
                  THEN parseOut.steps[k].from.peekToken
                  ELSE nextToken(parseOut.steps[k].from).peekToken
             /\ StatementsAfter(k) = parseOut.steps[k].before

\* The structure of a node: the node without the tokens it was made from.
RECURSIVE Structure(_)
StructureOfAll(nodes) == [i \in 1..Len(nodes) |-> Structure(nodes[i])]
Structure(node) ==
    CASE node.kind \in {"nil", "Identifier", "IntegerLiteral", "Boolean", "StringLiteral"} ->
           [f \in DOMAIN node \ {"Token"} |-> node[f]]
      [] node.kind = "LetStatement" -> LetStatement(Structure(node.Name), Structure(node.Value))
      [] node.kind = "ReturnStatement" -> ReturnStatement(Structure(node.ReturnValue))
      [] node.kind = "ExpressionStatement" -> ExpressionStatement(Structure(node.Expression))
      [] node.kind = "PrefixExpression" ->
           PrefixExpression(node.Operator, Structure(node.Right))
      [] node.kind = "InfixExpression" ->
           InfixExpression(Structure(node.Left), node.Operator, Structure(node.Right))
      [] node.kind = "IfExpression" ->
           IfExpression(Structure(node.Condition), Structure(node.Consequence),
                        Structure(node.Alternative))
      [] node.kind = "BlockStatement" -> BlockStatement(StructureOfAll(node.Statements))
      [] node.kind = "FunctionLiteral" ->
           FunctionLiteral(StructureOfAll(node.Parameters), Structure(node.Body))
      [] node.kind = "CallExpression" ->
           CallExpression(Structure(node.Function), StructureOfAll(node.Arguments))
      [] OTHER -> node

\* C15: a program parsed without errors, printed and parsed again gives no
\* error and statements of the same structure.
C15_PrintParsesBack ==
    parseOut.phase = "printed" =>
       /\ parseOut.again.p.errors = <<>>
       /\ StructureOfAll(parseOut.again.node) = StructureOfAll(parseOut.Statements)

\* The statement compiled in turn k of SpecCompile, and whether its Compile
\* returned nil.
CompiledStatement(k) == compileJob.program.Statements[k]
CompiledWithoutError(k) == k < Len(compileJob.steps) \/ compileJob.err = ""

\* C16: the instructions of an expression statement are those of its
\* expression followed by one OpPop; and in the walk of the compiled
\* bytecode, whichever way each OpJumpNotTruthy goes, the depth of the stack
\* never falls below 0 and is at the end of each top-level statement what it
\* was at the start of the program.
C16_StackStaysBalanced ==
    /\ compileJob.phase # "idle" =>
         \A k \in 1..Len(compileJob.steps) :
            CompiledStatement(k).kind = "ExpressionStatement" /\ CompiledWithoutError(k) =>
               compileJob.steps[k].after.instructions =
                  Compile(compileJob.steps[k].before,
                          CompiledStatement(k).Expression).c.instructions \o <<OpPop>>
    /\ walk.phase # "idle" =>
         /\ walk.low >= 0
         /\ \A i \in 1..Len(walk.atBounds) : walk.atBounds[i] = 0

\* An expression of integer literals and +, and a program of expression
\* statements over such expressions: what both the evaluator and the VM of
\* the source tree (OpConstant and OpAdd) implement.
RECURSIVE SumOfLiterals(_)
SumOfLiterals(e) ==
    \/ e.kind = "IntegerLiteral"
    \/ /\ e.kind = "InfixExpression"
       /\ e.Operator = "+"
       /\ SumOfLiterals(e.Left)
       /\ SumOfLiterals(e.Right)
BothImplement(statements) ==
    \A k \in 1..Len(statements) :
       /\ statements[k].kind = "ExpressionStatement"
       /\ SumOfLiterals(statements[k].Expression)

\* Two results are the same value: both nil, or Integers of one Value.
SameValue(a, b) ==
    /\ a.type = b.type
    /\ a.type \in {"nil", INTEGER_OBJ}
    /\ a.type = INTEGER_OBJ => a.Value = b.Value

C18_StackPointerInBounds ==
    run.status # "idle" =>
       /\ 0 <= machine.sp
       /\ machine.sp <= StackSize
       /\ Len(machine.stack) <= StackSize
       /\ (/\ run.last.turns > 0
           /\ run.last.op = OpConstant
           /\ run.last.sp = StackSize
           /\ run.status # "panic") =>
             /\ machine.sp = StackSize
             /\ machine.stack = run.last.stack
             /\ run.status = "error"
             /\ run.err = "stack overflow"
             /\ run.ip = run.last.ip

\* Run has returned `stack overflow` from a push on a full stack.
C18_Witness ==
    /\ run.status = "error"
    /\ run.err = "stack overflow"
    /\ run.last.op = OpConstant
    /\ run.last.sp = StackSize
    /\ machine.sp = StackSize

\* The operands an OpAdd turn pops from the stack it found: right first,
\* left second, nil from an empty stack.
RightOperand == IF run.last.sp >= 1 THEN run.last.stack[run.last.sp] ELSE Nil
LeftOperand == IF run.last.sp >= 2 THEN run.last.stack[run.last.sp - 1] ELSE Nil

\* C19: an OpAdd turn pops the right operand and then the left one; for two
\* Integers it pushes their sum, and for operands that are neither both
\* Integers nor both Strings, fewer than two values on the stack included,
\* Run returns the error `unsupported types for binary operation` and the
\* stack holds no result.
C19_BinaryOperandTypeError ==
    (run.status # "idle" /\ run.last.turns > 0 /\ run.last.op = OpAdd) =>
       /\ (LeftOperand.type = INTEGER_OBJ /\ RightOperand.type = INTEGER_OBJ) =>
             /\ run.status = "running"
             /\ machine.sp = run.last.sp - 1
             /\ StackTop(machine).Value = Wrap(LeftOperand.Value + RightOperand.Value)
       /\ (/\ ~(LeftOperand.type = INTEGER_OBJ /\ RightOperand.type = INTEGER_OBJ)
           /\ ~(LeftOperand.type = STRING_OBJ /\ RightOperand.type = STRING_OBJ)) =>
             /\ run.status = "error"
             /\ run.err = "unsupported types for binary operation"

\* The Define calls for resolved.name that came before the Resolve call, as
\* positions in defines.
DefinesBefore == {k \in 1..resolved.after : defines[k].Name = resolved.name}

MostRecent(ks) == CHOOSE k \in ks : \A j \in ks : j <= k

\* C20: after any sequence of Define calls on one SymbolTable, the k-th call
\* (counted from 0) returned a symbol with Index k and scope GLOBAL whatever
\* its name; Resolve(name) returns the symbol the most recent Define(name)
\* returned, and reports not-found for a name never defined.
C20_DefineNumbersResolveFinds ==
    /\ \A k \in 1..Len(defines) :
          /\ defines[k].Index = k - 1
          /\ defines[k].Scope = "GLOBAL"
    /\ resolved.phase = "resolved" =>
          IF DefinesBefore = {}
          THEN ~resolved.ok
          ELSE /\ resolved.ok
               /\ resolved.symbol = defines[MostRecent(DefinesBefore)]

\* Witness of C20: a name defined, another defined, the first defined again
\* and resolved to the symbol of the third call; and a Resolve of a name
\* never defined.
C20_Witness ==
    /\ Len(defines) = MaxDefines
    /\ defines[1].Name = "a"
    /\ defines[2].Name = "b"
    /\ defines[3].Name = "a"
    /\ defines[4].Name = "b"
    /\ resolved.phase = "resolved"
    /\ resolved.name = "a"
    /\ resolved.after = MaxDefines
    /\ resolved.ok
    /\ resolved.symbol = [Name |-> "a", Scope |-> "GLOBAL", Index |-> 2]
    /\ ~Resolve(symbolTable, "c").ok

\* The sum of the operand widths of the opcode of the last Make call.
WidthsOfMade == IF definitions[made.op] = <<>> THEN 0 ELSE definitions[made.op][1]

\* C21: for every defined opcode and every operand list that matches its
\* operand count and fits its widths, Make returns 1 + sum(widths) bytes, the
\* first the opcode, a 2-byte operand stored big-endian; ReadOperands on the
\* bytes after the opcode returns the same operands and the offset
\* sum(widths).
C21_MakeReadOperandsRoundTrip ==
    /\ made.phase \in {"made", "read"} =>
          /\ Len(made.instruction) = 1 + WidthsOfMade
          /\ made.instruction[1] = made.op
          /\ WidthsOfMade = 2 =>
                /\ made.instruction[2] = made.operands[1] \div 256
                /\ made.instruction[3] = made.operands[1] % 256
          /\ WidthsOfMade = 1 => made.instruction[2] = made.operands[1]
    /\ made.phase = "read" =>
          /\ ~made.read.panic
          /\ made.read.operands = made.operands
          /\ made.read.offset = WidthsOfMade

\* Witness of C21: OpConstant 0x1234 made as 0, 0x12, 0x34 and read back, and
\* a one-byte operand read back.
C21_Witness ==
    /\ made.phase = "read"
    /\ \/ /\ made.op = OpConstant
          /\ made.operands = <<4660>>
          /\ made.instruction = <<0, 18, 52>>
          /\ made.read.operands = <<4660>>
          /\ made.read.offset = 2
       \/ /\ made.op = OpCall
          /\ made.operands = <<255>>
          /\ made.instruction = <<21, 255>>
          /\ made.read.offset = 1

\* C28: Instructions.String terminates for every byte sequence: the cursor
\* i is greater after every turn of the loop than before it, also after the
\* turn that found a byte that is no opcode and wrote its `ERROR:` line.
C28_ListingCursorAdvances ==
    (listing.phase = "running" /\ listing.last.kind # "none") =>
        listing.i > listing.last.at

\* Compile has returned nil for a program that is the single expression
\* statement `a + b` of two integer literals.
CompiledSum ==
    /\ compileJob.phase \in {"compiled"}
    /\ Len(compileJob.program.Statements) = 1
    /\ compileJob.program.Statements[1].kind = "ExpressionStatement"
    /\ compileJob.program.Statements[1].Expression.kind = "InfixExpression"
    /\ compileJob.program.Statements[1].Expression.Operator = "+"
    /\ compileJob.program.Statements[1].Expression.Left.kind = "IntegerLiteral"
    /\ compileJob.program.Statements[1].Expression.Right.kind = "IntegerLiteral"

\* The constant pool [a, b] of the literals of the sum, in source order.
PoolOfSum ==
    <<[type |-> "INTEGER", Value |-> compileJob.program.Statements[1].Expression.Left.Value],
      [type |-> "INTEGER", Value |-> compileJob.program.Statements[1].Expression.Right.Value]>>

RECURSIVE BoundariesFrom(_, _)
BoundariesFrom(ins, ip) ==
    IF ip >= Len(ins) THEN {Len(ins)} ELSE {ip} \cup BoundariesFrom(ins, NextIp(ins, ip))

\* The jumps of the IfExpression node, compiled from the compiler c, as they
\* stand in the instructions final: jumpNotTruthyPos is where the condition
\* ends, opJumpPos where the consequence ends once its last OpPop is
\* dropped, and the node's code ends where Compile(c, node) ends.
JumpNotTruthyPosOf(c, node) == Len(Compile(c, node.Condition).c.instructions)

AfterJumpNotTruthy(c, node) == emit(Compile(c, node.Condition).c, OpJumpNotTruthy, <<9999>>)

OpJumpPosOf(c, node) ==
    Len(dropLastPop(Compile(AfterJumpNotTruthy(c, node), node.Consequence).c).instructions)

AfterJump(c, node) ==
    emit(dropLastPop(Compile(AfterJumpNotTruthy(c, node), node.Consequence).c),
         OpJump, <<9999>>)

IfJumpsPatched(c, node, final) ==
    /\ final[JumpNotTruthyPosOf(c, node) + 1] = OpJumpNotTruthy
    /\ ReadUint16(final, JumpNotTruthyPosOf(c, node) + 1) = OpJumpPosOf(c, node) + 3
    /\ final[OpJumpPosOf(c, node) + 1] = OpJump
    /\ ReadUint16(final, OpJumpPosOf(c, node) + 1) = Len(Compile(c, node).c.instructions)
    /\ node.Alternative = NoNode => final[OpJumpPosOf(c, node) + 4] = OpNull

\* Every IfExpression in node, compiled from c, has its jumps patched in
\* final; AllPatched is the same for the nodes from the i-th on, compiled in
\* turn.
RECURSIVE JumpsPatched(_, _, _), AllPatched(_, _, _, _)
JumpsPatched(c, node, final) ==
    CASE node.kind = "ExpressionStatement" -> JumpsPatched(c, node.Expression, final)
      [] node.kind = "LetStatement" -> JumpsPatched(c, node.Value, final)
      [] node.kind = "PrefixExpression" -> JumpsPatched(c, node.Right, final)
      [] node.kind = "InfixExpression" ->
           IF node.Operator = "<" THEN AllPatched(c, <<node.Right, node.Left>>, 1, final)
           ELSE AllPatched(c, <<node.Left, node.Right>>, 1, final)
      [] node.kind = "ArrayLiteral" -> AllPatched(c, node.Elements, 1, final)
      [] node.kind = "BlockStatement" -> AllPatched(c, node.Statements, 1, final)
      [] node.kind = "IfExpression" ->
           /\ IfJumpsPatched(c, node, final)
           /\ JumpsPatched(c, node.Condition, final)
           /\ JumpsPatched(AfterJumpNotTruthy(c, node), node.Consequence, final)
           /\ node.Alternative # NoNode =>
                 JumpsPatched(AfterJump(c, node), node.Alternative, final)
      [] OTHER -> TRUE

AllPatched(c, nodes, i, final) ==
    \/ i > Len(nodes)
    \/ /\ JumpsPatched(c, nodes[i], final)
       /\ AllPatched(Compile(c, nodes[i]).c, nodes, i + 1, final)

\* C23: after Compile of any IfExpression, nested ones included, the
\* operand of its OpJumpNotTruthy is the offset of the first instruction
\* after its OpJump, the operand of its OpJump is the offset just after the
\* alternative, no placeholder 9999 remains, and every jump operand is at
\* most len(instructions) and the offset of an instruction boundary.
C23_JumpsBackPatched ==
    compileJob.phase = "compiled" =>
       /\ AllPatched(CompilerNew, compileJob.program.Statements, 1, compiler.instructions)
       /\ \A ip \in BoundariesFrom(compiler.instructions, 0) :
             (/\ ip < Len(compiler.instructions)
              /\ compiler.instructions[ip + 1] \in {OpJump, OpJumpNotTruthy}) =>
                /\ ReadUint16(compiler.instructions, ip + 1) # 9999
                /\ ReadUint16(compiler.instructions, ip + 1) <= Len(compiler.instructions)
                /\ ReadUint16(compiler.instructions, ip + 1)
                      \in BoundariesFrom(compiler.instructions, 0)

\* Witness of C23: `if (true) { 10 }; 3` compiled to OpTrue, OpJumpNotTruthy
\* 10, OpConstant 0, OpJump 11, OpNull, OpPop, OpConstant 1, OpPop; or an
\* if with an if in its consequence compiled, two OpJump in its code.
C23_Witness ==
    /\ compileJob.phase = "compiled"
    /\ \/ compiler.instructions =
             <<OpTrue, OpJumpNotTruthy, 0, 10, OpConstant, 0, 0, OpJump, 0, 11, OpNull, OpPop,
               OpConstant, 0, 1, OpPop>>
       \/ /\ compileJob.program.src = "if (true) { 1; if (false) { 2 } else { 3 } } else { 4 }; 5"
          /\ Cardinality({ip \in BoundariesFrom(compiler.instructions, 0) :
                             /\ ip < Len(compiler.instructions)
                             /\ compiler.instructions[ip + 1] = OpJump}) = 2

\* C24: for every opcode that carries operand bytes, Run advances ip past
\* them, so that on bytecode the compiler produced every turn of the loop
\* of Run decodes the byte at the start of an instruction, never an operand
\* byte.
C24_RunDecodesOnlyOpcodes ==
    (status # "idle" /\ run.status # "idle" /\ run.last.turns > 0) =>
        run.last.ip \in BoundariesFrom(machine.instructions, 0)

\* The value of a digit string read in base 10.
DecimalValue(s) == ParseDigits(s, 10, 0).value

\* The statement is an expression statement that is an integer literal.
IntegerStatement(stmt) ==
    /\ stmt.kind = "ExpressionStatement"
    /\ stmt.Expression.kind = "IntegerLiteral"

\* C25: parseIntegerLiteral gives an INT token, whose literal is a digit
\* string, the value of the digit string read in base 10, leading zeros
\* included (`010` has value 10), and appends `could not parse <S> as
\* integer` only when the decimal value does not fit in 64 bits; the digit
\* strings of the inputs all fit.
C25_IntegerLiteralIsDecimal ==
    parseOut.phase # "idle" =>
       \A k \in 1..Len(parseOut.steps) :
          (/\ parseOut.steps[k].from.curToken.Type = INT
           /\ IntegerStatement(parseOut.steps[k].stmt)) =>
             /\ parseOut.steps[k].stmt.Expression.Value =
                   DecimalValue(parseOut.steps[k].from.curToken.Literal)
             /\ parseOut.steps[k].left.errors = parseOut.steps[k].from.errors

\* The object is no Boolean but TRUE or FALSE and no Null but NULL, also
\* inside a ReturnValue.
RECURSIVE IsShared(_)
IsShared(o) ==
    CASE o.type = "BOOLEAN" -> o = (IF o.Value THEN TRUE_OBJ ELSE FALSE_OBJ)
      [] o.type = "NULL" -> o = NULL
      [] o.type = "RETURN_VALUE" -> IsShared(o.Value)
      [] OTHER -> TRUE

\* For Booleans and nulls, the address comparison of ==, != , ! and isTruthy
\* says what the comparison of the values says.
IdentityIsValue(a, b) ==
    (a.type \in {"BOOLEAN", "NULL"} /\ b.type \in {"BOOLEAN", "NULL"}) =>
       (SameObject(a, b) <=>
           /\ a.type = b.type
           /\ a.type = "BOOLEAN" => a.Value = b.Value)

\* C26: every Boolean Eval produces is one of the singletons TRUE and FALSE
\* and every null it produces is NULL: the values of the statements, the
\* value evalProgram returns, the values of blocks and calls, and the values
\* bound in the environments; so comparing two of them by address is
\* comparing them by value.
C26_BooleansAndNullAreShared ==
    status # "idle" =>
       /\ IsShared(result)
       /\ IsShared(st.val)
       /\ \A k \in 1..Len(results) : IsShared(results[k].val)
       /\ \A k \in 1..Len(st.log) : IsShared(st.log[k].val)
       /\ \A e \in 1..Len(st.heap) : \A n \in DOMAIN st.heap[e].store :
             IsShared(st.heap[e].store[n])
       /\ \A j \in 1..Len(results) : \A k \in 1..Len(results) :
             IdentityIsValue(results[j].val, results[k].val)
       /\ \A k \in 1..Len(results) :
             /\ IdentityIsValue(results[k].val, TRUE_OBJ)
             /\ IdentityIsValue(results[k].val, FALSE_OBJ)
             /\ IdentityIsValue(results[k].val, NULL)

\* Witness of C26: a comparison has yielded a Boolean, or an if without
\* alternative whose condition is not truthy has yielded a null.
C26_Witness ==
    /\ status # "idle"
    /\ \E k \in 1..Len(results) :
          /\ program.Statements[results[k].stmt].kind = "ExpressionStatement"
          /\ \/ /\ program.Statements[results[k].stmt].Expression.kind = "InfixExpression"
                /\ program.Statements[results[k].stmt].Expression.Operator \in {"<", ">", "==", "!="}
                /\ results[k].val.type = "BOOLEAN"
             \/ /\ program.Statements[results[k].stmt].Expression.kind = "IfExpression"
                /\ results[k].val.type = "NULL"

\* The tokens NextToken returns from the lexer l before the first EOF.
RECURSIVE CountTokens(_)
countAfter(r) == IF r.tok.Type = EOF THEN 0 ELSE 1 + CountTokens(r.l)
CountTokens(l) == countAfter(NextToken(l))

\* No more turns of the loop are taken than the input has tokens.
TurnsWithinTokens ==
    parseOut.phase # "idle" =>
       Len(parseOut.steps) <= CountTokens(LexerNew(StringToBytes(parseOut.src)))

\* C27: ParseProgram terminates on every finite input, inputs with an
\* unterminated block, parameter list, argument list or hash literal
\* included: every turn of its loop consumes at least one token, so it takes
\* no more turns than the input has tokens, and it returns.
C27_ParseProgramTerminates ==
    /\ []TurnsWithinTokens
    /\ <>(parseOut.phase \in {"parsed", "printed"})

\* Witness of C27: ParseProgram has returned on an input that ends inside a
\* block inside a function literal.
C27_Witness ==
    /\ parseOut.phase = "parsed"
    /\ parseOut.src \in {"fn(x) { x", "fn(x) { if (y) { f("}
    /\ Len(parseOut.steps) >= 1
    /\ curTokenIs(parser, EOF)

\* C29: calling a user function with a number of arguments different from its
\* number of parameters does not fault: with fewer arguments than parameters
\* the call yields an Error value instead of reading an argument that does
\* not exist, and with more arguments the extra ones are ignored.
C29_ArityMismatchDoesNotFault ==
    /\ ~(status = "panic" /\ result.Message = "index out of range")
    /\ (program.src = "let f = fn(a, b) { a }; f(1)" /\ status # "running")
          => result.type = ERROR_OBJ
    /\ (program.src = "let f = fn(a, b) { a - b }; f(5, 3, 9)" /\ status # "running")
          => (result.type = INTEGER_OBJ /\ result.Value = 2)

\* C30: integer division whose right operand is 0 is reported as an Error
\* value that ends the evaluation like any other runtime error; Eval returns
\* normally instead of aborting with a runtime panic.
C30_DivisionByZeroIsError ==
    /\ ~(status = "panic" /\ result.Message = "integer divide by zero")
    /\ (program.src = "1 / 0" /\ status # "running") => result.type = ERROR_OBJ

====
